---- MODULE Spec2Model ----
(***************************************************************************)
(* State-machine model of the iCloud multi-agent backup helper             *)
(* (src/src/icloud_multi_agent): the policy gate, the icloudpy-backed      *)
(* authentication agent, the orchestrator's login entry points and the     *)
(* three backup sources (fixture, MobileSync, cloud).                      *)
(*                                                                         *)
(* Conventions                                                             *)
(*  - Python None / Optional[T] is a sequence of length 0 or 1.            *)
(*  - A raised exception is a pair (raised, msg): raised is the Python     *)
(*    exception class, msg a tag for the raise site's message.             *)
(*  - The icloudpy service object is the environment: its properties are   *)
(*    derived from the account data it holds (hsaVersion,                  *)
(*    hsaTrustedBrowser), as icloudpy derives them.                        *)
(***************************************************************************)
EXTENDS Naturals, Integers, Sequences, FiniteSets, TLC

VARIABLES
    allow_private_endpoints, \* PolicyGate.allow_private_endpoints
    _service,                \* ICloudPyAuthAgent._service (Optional)
    _apple_id,               \* ICloudPyAuthAgent._apple_id (Optional)
    _pending_device,         \* ICloudPyAuthAgent._pending_device (Optional)
    session_file,            \* contents of ICloudPyAuthAgent.session_file (Optional)
    cookie_directory,        \* whether cookie_directory exists on disk
    flow,                    \* history: outcome of the last login/verification that returned or tore state
    loginSucceeded,          \* history: some login call has returned normally
    fsReads,                 \* the latest call read a MobileSync root directory
    netRequests,             \* the latest call sent a request to the remote backup endpoint
    log,                     \* integrity-log entries appended by the latest orchestrator call or step
    last,                    \* the latest operation, its inputs and its outcome
    threads,                 \* the worker threads BackupGUI.run_async started, and their position
    _awaiting_2fa,           \* BackupGUI._awaiting_2fa
    owner,                   \* history: the login threads that assigned _service and _pending_device
    destination              \* the download destination: what each planned target path holds

vars == <<allow_private_endpoints, _service, _apple_id, _pending_device,
          session_file, cookie_directory, flow, loginSucceeded,
          fsReads, netRequests, log, last, threads, _awaiting_2fa, owner, destination>>

authVars == <<_service, _apple_id, _pending_device, session_file, cookie_directory,
              flow, loginSucceeded>>

(***************************************************************************)
(* Bounds and input sets                                                   *)
(***************************************************************************)
MaxDevices == 2

Devices == 1..MaxDevices

\* service.trusted_devices: no registered device, or all of them in one of
\* the orders the provider may list them in
DeviceLists ==
    {<<>>} \cup {[i \in Devices |-> ((i + k - 1) % MaxDevices) + 1] : k \in Devices}

AppleIds == {"", "alice"}

GoodPassword == "good"

Passwords == {"", GoodPassword, "bad"}

Digits == {"0", "1", "2", "3", "4", "5", "6", "7", "8", "9"}

\* the code the provider delivered out of band
SecretCode == <<"1", "2", "3", "4", "5", "6">>

Codes == {<<>>,
          SecretCode,
          <<"6", "5", "4", "3", "2", "1">>,
          <<"1", "2", "a", "4", "5", "6">>,
          <<"1", "2", "3", "4", "5">>}

Capabilities == {"device_backups", "photos"}

Faults == {"none", "api", "io"}

None == <<>>

Some(v) == <<v>>

NoError == [raised |-> "None", msg |-> "None"]

Error(type, tag) == [raised |-> type, msg |-> tag]

(***************************************************************************)
(* policy.py                                                               *)
(***************************************************************************)
\* a gate whose check was dropped
require_private_access_open(gate, capability) ==
    [err |-> NoError, gate |-> gate]

\* PolicyGate.require_private_access: the outcome and the gate afterwards
require_private_access(gate, capability) ==
    IF ~gate
    THEN [err |-> Error("PolicyViolation", "PrivateEndpointsDisabled"), gate |-> gate]
    ELSE [err |-> NoError, gate |-> gate]

\* PolicyGate.describe_capabilities
describe_capabilities(gate) ==
    IF gate THEN <<"ENABLED">> ELSE <<"DISABLED">>

(***************************************************************************)
(* The icloudpy service object (environment)                               *)
(***************************************************************************)
\* ICloudPyService.is_trusted_session
is_trusted_session(s) == s.hsaTrustedBrowser

\* ICloudPyService.requires_2sa
requires_2sa(s) == s.hsaVersion >= 1 /\ ~is_trusted_session(s)

\* ICloudPyService.requires_2fa
requires_2fa(s) == s.hsaVersion = 2 /\ ~is_trusted_session(s)

\* the accounts' data a successful sign-in can return
ServiceEnvs ==
    [hsaVersion : 0..2, hsaTrustedBrowser : BOOLEAN, devices : DeviceLists,
     session_token : {"", "tok"}, session_id : {"sid"}]

\* ICloudPyService(apple_id, password): sign-in against the provider
NewService(apple_id, password, env, fault) ==
    IF password # GoodPassword
    THEN [err |-> Error("ICloudPyFailedLoginException", "FailedLogin"), svc |-> None]
    ELSE IF fault = "api"
    THEN [err |-> Error("ICloudPyAPIResponseException", "ApiResponse"), svc |-> None]
    ELSE IF fault = "io"
    THEN [err |-> Error("Exception", "Unexpected"), svc |-> None]
    ELSE [err |-> NoError, svc |-> Some(env)]

\* validate_2fa_code / validate_verification_code: the provider accepts the
\* delivered code only; acceptance trusts the session
validate_code(s, code, fault) ==
    IF fault = "api"
    THEN [err |-> Error("ICloudPyAPIResponseException", "ApiResponse"), success |-> FALSE, svc |-> s]
    ELSE IF fault = "io"
    THEN [err |-> Error("Exception", "Unexpected"), success |-> FALSE, svc |-> s]
    ELSE IF code = SecretCode
    THEN [err |-> NoError, success |-> TRUE, svc |-> [s EXCEPT !.hsaTrustedBrowser = TRUE]]
    ELSE [err |-> NoError, success |-> FALSE, svc |-> s]

(***************************************************************************)
(* agents/auth_agent.py                                                    *)
(***************************************************************************)
Session(apple_id, session_token, trusted) ==
    [apple_id |-> apple_id, session_token |-> session_token, trusted |-> trusted]

\* a session marked trusted whatever the service reports
_build_session_trusting(s, apple_id) ==
    Session(apple_id, IF s.session_token # "" THEN s.session_token ELSE s.session_id, TRUE)

\* a session whose token ignores the session id
_build_session_tokenonly(s, apple_id) ==
    Session(apple_id, s.session_token, is_trusted_session(s))

\* ICloudPyAuthAgent._build_session
_build_session(s, apple_id) ==
    LET token == IF s.session_token # "" THEN s.session_token
                 ELSE IF s.session_id # "" THEN s.session_id
                 ELSE ""
    IN  Session(apple_id, token, is_trusted_session(s))

\* ICloudPyAuthAgent._write_session_state: the payload left in session_file
_write_session_state(apple_id, session_token, trusted) ==
    Some([apple_id |-> apple_id, trusted |-> trusted, session_token |-> session_token])

\* the agent's fields as one record
AgentState(svc, aid, pend, file, cookie) ==
    [svc |-> svc, aid |-> aid, pend |-> pend, file |-> file, cookie |-> cookie]

\* the pending device of the former attempt is kept
AdoptService_keeping(st, s, apple_id) ==
    [st EXCEPT !.svc = Some(s), !.aid = Some(apple_id)]

\* ICloudPyAuthAgent.login, the assignments after the sign-in went through:
\* the new service replaces the old one and the pending device is dropped
AdoptService(st, s, apple_id) ==
    [st EXCEPT !.svc = Some(s), !.aid = Some(apple_id), !.pend = None]

\* ICloudPyAuthAgent.login: outcome and the agent's fields afterwards
login(apple_id, password, env, fault, sendOk, st) ==
    IF password = ""
    THEN [err |-> Error("ValueError", "PasswordRequired"), requires2FA |-> FALSE,
          session |-> None, st |-> st]
    ELSE
    LET made == NewService(apple_id, password, env, fault)
        st0  == [st EXCEPT !.cookie = TRUE]
    IN
    IF made.err.raised = "ICloudPyFailedLoginException"
    THEN [err |-> Error("AuthenticationError", "InvalidCredentials"), requires2FA |-> FALSE,
          session |-> None, st |-> st0]
    ELSE IF made.err.raised = "ICloudPyAPIResponseException"
    THEN [err |-> Error("AuthenticationError", "LoginRejected"), requires2FA |-> FALSE,
          session |-> None, st |-> st0]
    ELSE IF made.err.raised # "None"
    THEN [err |-> made.err, requires2FA |-> FALSE, session |-> None, st |-> st0]
    ELSE
    LET s   == made.svc[1]
        st1 == AdoptService(st0, s, apple_id)
        requires_two_factor == requires_2fa(s) \/ requires_2sa(s)
    IN
    IF requires_2sa(s) /\ s.devices = <<>>
    THEN [err |-> Error("AuthenticationError", "NoTrustedDevice"), requires2FA |-> FALSE,
          session |-> None, st |-> st1]
    ELSE IF requires_2sa(s) /\ ~sendOk
    THEN [err |-> Error("AuthenticationError", "CodeNotSent"), requires2FA |-> FALSE,
          session |-> None, st |-> st1]
    ELSE
    LET st2 == IF requires_2sa(s) THEN [st1 EXCEPT !.pend = Some(Head(s.devices))] ELSE st1
        session == IF ~requires_two_factor THEN Some(_build_session(s, apple_id)) ELSE None
        file == _write_session_state(
                    apple_id,
                    IF session # None THEN session[1].session_token ELSE "",
                    IF session # None THEN session[1].trusted ELSE is_trusted_session(s))
    IN  [err |-> NoError, requires2FA |-> requires_two_factor, session |-> session,
         st |-> [st2 EXCEPT !.file = file]]

\* a service that needs no verification is refused
CheckCode_strict(s, code, fault) ==
    IF requires_2fa(s) \/ requires_2sa(s)
    THEN validate_code(s, code, fault)
    ELSE [err |-> NoError, success |-> FALSE, svc |-> s]

\* the provider's verdict is not looked at
CheckCode_lenient(s, code, fault) ==
    [validate_code(s, code, fault) EXCEPT !.success = (validate_code(s, code, fault).err = NoError)]

\* ICloudPyAuthAgent.submit_2fa, the try block: the code goes to the provider
\* only while the service still requires a second factor
CheckCode(s, code, fault) ==
    IF requires_2fa(s) \/ requires_2sa(s)
    THEN validate_code(s, code, fault)
    ELSE [err |-> NoError, success |-> TRUE, svc |-> s]

\* ICloudPyAuthAgent.submit_2fa: outcome, the device validated against, and
\* the agent's fields afterwards
submit_2fa(code, fault, st) ==
    IF code = <<>>
    THEN [err |-> Error("AuthenticationError", "EmptyCode"), session |-> None,
          device |-> None, st |-> st]
    ELSE IF st.svc = None \/ st.aid = None
    THEN [err |-> Error("AuthenticationError", "NoActiveSession"), session |-> None,
          device |-> None, st |-> st]
    ELSE
    LET s == st.svc[1]
        device == IF requires_2fa(s) \/ ~requires_2sa(s) THEN None
                  ELSE IF st.pend # None THEN st.pend
                  ELSE IF s.devices # <<>> THEN Some(Head(s.devices))
                  ELSE None
        noDevice == ~requires_2fa(s) /\ requires_2sa(s) /\ device = None
        v == CheckCode(s, code, fault)
    IN
    IF noDevice
    THEN [err |-> Error("AuthenticationError", "NoVerificationDevice"), session |-> None,
          device |-> None, st |-> st]
    ELSE IF v.err.raised = "ICloudPyAPIResponseException"
    THEN [err |-> Error("AuthenticationError", "VerificationRejected"), session |-> None,
          device |-> device, st |-> st]
    ELSE IF v.err.raised # "None"
    THEN [err |-> v.err, session |-> None, device |-> device, st |-> st]
    ELSE IF ~v.success
    THEN [err |-> Error("AuthenticationError", "InvalidCode"), session |-> None,
          device |-> device, st |-> st]
    ELSE
    LET session == _build_session(v.svc, st.aid[1])
    IN  [err |-> NoError, session |-> Some(session), device |-> device,
         st |-> [st EXCEPT !.svc = Some(v.svc),
                           !.file = _write_session_state(session.apple_id,
                                                         session.session_token,
                                                         session.trusted)]]

\* a session restored from the live service once it is trusted
load_session_restoring(st) ==
    IF st.svc # None /\ st.aid # None /\ is_trusted_session(st.svc[1])
    THEN Some(_build_session(st.svc[1], st.aid[1]))
    ELSE None

\* ICloudPyAuthAgent.load_session
load_session(st) == None

(***************************************************************************)
(* History bookkeeping                                                     *)
(***************************************************************************)
\* what the latest state-assigning login or verification did
FlowAfterLogin(r, f) ==
    IF r.err.raised = "None"
    THEN IF r.requires2FA THEN "login_2fa" ELSE "login_done"
    ELSE IF r.err.msg \in {"NoTrustedDevice", "CodeNotSent"} THEN "login_failed"
    ELSE f

FlowAfterSubmit(r, f) ==
    IF r.err.raised = "None" THEN "verified" ELSE f

CurrentAgent == AgentState(_service, _apple_id, _pending_device, session_file, cookie_directory)

SetAgent(st) ==
    /\ _service' = st.svc
    /\ _apple_id' = st.aid
    /\ _pending_device' = st.pend
    /\ session_file' = st.file
    /\ cookie_directory' = st.cookie

AuthOutcome(op, args, err, requires2FA, session, device, fault) ==
    [op |-> op, args |-> args, err |-> err, requires2FA |-> requires2FA,
     session |-> session, device |-> device, fault |-> fault,
     pre_flow |-> flow, pre_ok |-> loginSucceeded]

Entry(event, context) == <<event, context>>

(***************************************************************************)
(* orchestrator.py: login entry points                                     *)
(***************************************************************************)
\* Orchestrator.start_login: outcome, log entries and the agent afterwards
start_login(apple_id, password, env, fault, sendOk, st) ==
    LET existing == load_session(st) IN
    IF existing # None
    THEN [err |-> NoError, requires2FA |-> FALSE, session |-> existing, st |-> st,
          entries |-> <<Entry("auth_session_restored",
                              <<existing[1].apple_id, existing[1].trusted>>)>>]
    ELSE IF apple_id = ""
    THEN [err |-> Error("ValueError", "AppleIdRequired"), requires2FA |-> FALSE,
          session |-> None, st |-> st, entries |-> <<>>]
    ELSE IF password = ""
    THEN [err |-> Error("ValueError", "PasswordRequired"), requires2FA |-> FALSE,
          session |-> None, st |-> st, entries |-> <<>>]
    ELSE
    LET r == login(apple_id, password, env, fault, sendOk, st)
        attempt == Entry("auth_login_attempt", <<apple_id>>)
    IN
    IF r.err.raised = "AuthenticationError"
    THEN [err |-> r.err, requires2FA |-> FALSE, session |-> None, st |-> r.st,
          entries |-> <<attempt, Entry("auth_login_failed", <<apple_id, r.err.msg>>)>>]
    ELSE IF r.err.raised # "None"
    THEN [err |-> r.err, requires2FA |-> FALSE, session |-> None, st |-> r.st,
          entries |-> <<attempt, Entry("auth_login_error", <<apple_id, r.err.msg>>)>>]
    ELSE [err |-> NoError, requires2FA |-> r.requires2FA, session |-> r.session, st |-> r.st,
          entries |-> <<attempt,
                        Entry("auth_login",
                              <<apple_id, r.requires2FA,
                                IF r.session # None THEN r.session[1].trusted ELSE FALSE>>)>>]

\* complete_two_factor with no entry recorded for an unexpected failure
complete_two_factor_unaudited(code, fault, gate, st) ==
    IF code = <<>>
    THEN [err |-> Error("ValueError", "CodeRequired"), session |-> None, device |-> None,
          st |-> st, entries |-> <<>>]
    ELSE
    LET r == submit_2fa(code, fault, st)
        attempt == Entry("auth_2fa_attempt", <<>>)
    IN
    IF r.err.raised = "AuthenticationError"
    THEN [err |-> r.err, session |-> None, device |-> r.device, st |-> r.st,
          entries |-> <<attempt, Entry("auth_2fa_failed", <<r.err.msg>>)>>]
    ELSE IF r.err.raised # "None"
    THEN [err |-> r.err, session |-> None, device |-> r.device, st |-> r.st,
          entries |-> <<attempt>>]
    ELSE [err |-> NoError, session |-> r.session, device |-> r.device, st |-> r.st,
          entries |-> <<attempt,
                        Entry("auth", <<IF r.session[1].trusted THEN "trusted" ELSE "untrusted">>),
                        Entry("policy", describe_capabilities(gate))>>]

\* Orchestrator.complete_two_factor
complete_two_factor(code, fault, gate, st) ==
    IF code = <<>>
    THEN [err |-> Error("ValueError", "CodeRequired"), session |-> None, device |-> None,
          st |-> st, entries |-> <<>>]
    ELSE
    LET r == submit_2fa(code, fault, st)
        attempt == Entry("auth_2fa_attempt", <<>>)
    IN
    IF r.err.raised = "AuthenticationError"
    THEN [err |-> r.err, session |-> None, device |-> r.device, st |-> r.st,
          entries |-> <<attempt, Entry("auth_2fa_failed", <<r.err.msg>>)>>]
    ELSE IF r.err.raised # "None"
    THEN [err |-> r.err, session |-> None, device |-> r.device, st |-> r.st,
          entries |-> <<attempt, Entry("auth_2fa_error", <<r.err.msg>>)>>]
    ELSE [err |-> NoError, session |-> r.session, device |-> r.device, st |-> r.st,
          entries |-> <<attempt,
                        Entry("auth", <<IF r.session[1].trusted THEN "trusted" ELSE "untrusted">>),
                        Entry("policy", describe_capabilities(gate))>>]

(***************************************************************************)
(* agents/__init__.py: data classes                                        *)
(***************************************************************************)
BackupMeta(identifier, device_name, created_at, approx_size_bytes, source) ==
    [identifier |-> identifier, device_name |-> device_name, created_at |-> created_at,
     approx_size_bytes |-> approx_size_bytes, source |-> source]

DownloadItem(logical_path, source_path, size_bytes) ==
    [logical_path |-> logical_path, source_path |-> source_path, size_bytes |-> size_bytes]

DownloadPlan(backup, total_files, total_bytes, items) ==
    [backup |-> backup, total_files |-> total_files, total_bytes |-> total_bytes,
     items |-> items]

RECURSIVE SumSizes(_)
SumSizes(items) ==
    IF items = <<>> THEN 0 ELSE Head(items).size_bytes + SumSizes(Tail(items))

\* the value a source operation hands back: error, result, and whether it
\* touched the MobileSync directories or the remote endpoint on the way
SourceOutcome(err, result, fs, net) ==
    [err |-> err, result |-> result, fs |-> fs, net |-> net]

(***************************************************************************)
(* agents/icloud_api_agent.py: MockICloudAPI (fixture source)              *)
(***************************************************************************)
FixtureItem(path, declared, onDisk) ==
    [logical_path |-> path, source_path |-> path, size_bytes |-> declared, st_size |-> onDisk]

\* fixture entry A: three files of 100 bytes, sizes declared
FixtureA ==
    [id |-> "A", device_name |-> "iPhone", created_at |-> "2024-01-01",
     approx_size_bytes |-> Some(300),
     items |-> <<FixtureItem("f1", Some(100), None), FixtureItem("f2", Some(100), None),
                 FixtureItem("f3", Some(100), None)>>]

\* fixture entry F: no declared sizes; one file exists on disk, one does not
FixtureF ==
    [id |-> "F", device_name |-> "iPad", created_at |-> "2024-02-02",
     approx_size_bytes |-> None,
     items |-> <<FixtureItem("g1", None, Some(7)), FixtureItem("g2", None, None)>>]

\* the "device_backups" list of the fixture file; a missing file reads as empty
MockDataFiles == {<<>>, <<FixtureA>>, <<FixtureA, FixtureF>>}

RECURSIVE MockMetas(_)
MockMetas(entries) ==
    IF entries = <<>> THEN <<>>
    ELSE LET e == Head(entries) IN
         <<BackupMeta(e.id, e.device_name, e.created_at,
                      IF e.approx_size_bytes # None THEN e.approx_size_bytes[1] ELSE 0,
                      "icloud")>> \o MockMetas(Tail(entries))

\* MockICloudAPI.list_device_backups
MockICloudAPI_list_device_backups(gate, data) ==
    LET g == require_private_access(gate, "device_backups") IN
    IF g.err.raised # "None" THEN SourceOutcome(g.err, <<>>, FALSE, FALSE)
    ELSE SourceOutcome(NoError, MockMetas(data), FALSE, FALSE)

\* the items and the running total_bytes of a plan under construction
PlanAcc(items, total_bytes) == [items |-> items, total_bytes |-> total_bytes]

\* a size read from disk is listed but not added to the total
MockAddItem_declared(acc, it) ==
    LET size == IF it.size_bytes # None THEN it.size_bytes[1]
                ELSE IF it.st_size # None THEN it.st_size[1] ELSE 0
    IN  PlanAcc(Append(acc.items, DownloadItem(it.logical_path, it.source_path, size)),
                acc.total_bytes + (IF it.size_bytes # None THEN size ELSE 0))

\* MockICloudAPI.plan_download, the loop body: the declared size, else the
\* size on disk, else 0, is added to total_bytes and listed
MockAddItem(acc, it) ==
    LET size == IF it.size_bytes # None THEN it.size_bytes[1]
                ELSE IF it.st_size # None THEN it.st_size[1] ELSE 0
    IN  PlanAcc(Append(acc.items, DownloadItem(it.logical_path, it.source_path, size)),
                acc.total_bytes + size)

RECURSIVE MockItems(_, _)
MockItems(items, acc) ==
    IF items = <<>> THEN acc ELSE MockItems(Tail(items), MockAddItem(acc, Head(items)))

\* an unknown identifier answered with a plan of no items
MockNotFound_empty(backup_id) ==
    SourceOutcome(NoError,
                  DownloadPlan(BackupMeta(backup_id, "", "", 0, "icloud"), 0, 0, <<>>),
                  FALSE, FALSE)

\* MockICloudAPI.plan_download, no entry of the fixture matches
MockNotFound(backup_id) ==
    SourceOutcome(Error("FileNotFoundError", "NotInMockData"), <<>>, FALSE, FALSE)

\* MockICloudAPI.plan_download
MockICloudAPI_plan_download(gate, data, backup_id) ==
    LET g == require_private_access(gate, "device_backups")
        matches == SelectSeq(data, LAMBDA b : b.id = backup_id)
    IN
    IF g.err.raised # "None" THEN SourceOutcome(g.err, <<>>, FALSE, FALSE)
    ELSE IF matches = <<>> THEN MockNotFound(backup_id)
    ELSE
    LET backup == matches[1]
        built == MockItems(backup.items, PlanAcc(<<>>, 0))
    IN  SourceOutcome(NoError,
            DownloadPlan(BackupMeta(backup.id, backup.device_name, backup.created_at,
                                    IF backup.approx_size_bytes # None
                                    THEN backup.approx_size_bytes[1] ELSE built.total_bytes,
                                    "icloud"),
                         Len(built.items), built.total_bytes, built.items),
            FALSE, FALSE)

(***************************************************************************)
(* agents/icloud_api_agent.py: MobileSyncICloudAPI (local sync source)     *)
(***************************************************************************)
BackupFile(path, size) == [path |-> path, st_size |-> size]

\* a backup directory: its name, Info.plist values when present, its
\* modification time and its files (st_size None: stat fails)
BackupDir(name, info, mtime, files) ==
    [name |-> name, info |-> info, mtime |-> mtime, files |-> files]

DirA ==
    BackupDir("A", Some([device_name |-> "iPhone 15", date |-> "2024-03-03", size |-> 50]),
              "2024-03-04", <<BackupFile("Manifest.db", Some(20)), BackupFile("ab/cd", Some(30))>>)

DirB ==
    BackupDir("B", None, "2024-04-04", <<BackupFile("Manifest.db", Some(5)), BackupFile("x", None)>>)

Root(kind, dirs) == [kind |-> kind, dirs |-> dirs]

\* the candidate root directories as the filesystem presents them
FsStates ==
    {<<Root("missing", <<>>)>>,
     <<Root("denied", <<>>)>>,
     <<Root("denied", <<>>), Root("ok", <<DirA>>)>>,
     <<Root("ok", <<>>), Root("denied", <<>>)>>,
     <<Root("ok", <<DirA, DirB>>)>>}

RECURSIVE DirsOf(_)
DirsOf(roots) ==
    IF roots = <<>> THEN <<>>
    ELSE (IF Head(roots).kind = "ok" THEN Head(roots).dirs ELSE <<>>) \o DirsOf(Tail(roots))

HasDenied(roots) == \E i \in 1..Len(roots) : roots[i].kind = "denied"

\* the error is kept for the case that every root is denied
_iter_backup_dirs_alldenied(roots) ==
    LET dirs == DirsOf(roots) IN
    IF dirs = <<>> /\ roots # <<>> /\ \A i \in 1..Len(roots) : roots[i].kind = "denied"
    THEN [err |-> Error("PermissionError", "NoAccessToMobileSync"), dirs |-> dirs]
    ELSE [err |-> NoError, dirs |-> dirs]

\* MobileSyncICloudAPI._iter_backup_dirs, run to exhaustion: the error is
\* raised at the end when no directory was yielded and some root was denied
_iter_backup_dirs(roots) ==
    LET dirs == DirsOf(roots) IN
    IF dirs = <<>> /\ HasDenied(roots)
    THEN [err |-> Error("PermissionError", "NoAccessToMobileSync"), dirs |-> dirs]
    ELSE [err |-> NoError, dirs |-> dirs]

RECURSIVE SumFiles(_)
SumFiles(files) ==
    IF files = <<>> THEN [ok |-> TRUE, sum |-> 0]
    ELSE LET rest == SumFiles(Tail(files)) IN
         IF Head(files).st_size = None \/ ~rest.ok THEN [ok |-> FALSE, sum |-> 0]
         ELSE [ok |-> TRUE, sum |-> Head(files).st_size[1] + rest.sum]

\* MobileSyncICloudAPI._read_plist_metadata and the fallbacks of _discover_backups
DiscoveredMeta(d) ==
    LET device_name == IF d.info # None THEN d.info[1].device_name ELSE d.name
        plist_date  == IF d.info # None THEN d.info[1].date ELSE ""
        plist_size  == IF d.info # None THEN d.info[1].size ELSE 0
        created_at  == IF plist_date # "" THEN plist_date ELSE d.mtime
        summed      == SumFiles(d.files)
        approx_size == IF plist_size > 0 THEN plist_size
                       ELSE IF summed.ok THEN summed.sum ELSE 0
    IN  BackupMeta(d.name, device_name, created_at, approx_size, "mobilesync")

\* MobileSyncICloudAPI._discover_backups: a later directory of the same
\* name replaces an earlier one
RECURSIVE Discover(_, _)
Discover(dirs, acc) ==
    IF dirs = <<>> THEN acc
    ELSE LET d == Head(dirs)
             kept == SelectSeq(acc, LAMBDA e : e.dir.name # d.name)
             pos == {i \in 1..Len(acc) : acc[i].dir.name = d.name}
             entry == [dir |-> d, meta |-> DiscoveredMeta(d)]
         IN  Discover(Tail(dirs),
                      IF pos = {} THEN Append(acc, entry)
                      ELSE [acc EXCEPT ![CHOOSE i \in pos : TRUE] = entry])

_discover_backups(roots) ==
    LET it == _iter_backup_dirs(roots) IN
    IF it.err.raised # "None" THEN [err |-> it.err, found |-> <<>>]
    ELSE [err |-> NoError, found |-> Discover(it.dirs, <<>>)]

\* MobileSyncICloudAPI.has_any_backups
MobileSyncICloudAPI_has_any_backups(gate, roots) ==
    LET it == _iter_backup_dirs(roots) IN
    IF it.dirs # <<>> THEN SourceOutcome(NoError, TRUE, TRUE, FALSE)
    ELSE IF it.err.raised # "None" THEN SourceOutcome(it.err, FALSE, TRUE, FALSE)
    ELSE SourceOutcome(NoError, FALSE, TRUE, FALSE)

\* MobileSyncICloudAPI.list_device_backups
MobileSyncICloudAPI_list_device_backups(gate, roots) ==
    LET g == require_private_access(gate, "device_backups")
        d == _discover_backups(roots)
    IN
    IF g.err.raised # "None" THEN SourceOutcome(g.err, <<>>, FALSE, FALSE)
    ELSE IF d.err.raised # "None" THEN SourceOutcome(d.err, <<>>, TRUE, FALSE)
    ELSE SourceOutcome(NoError, [i \in 1..Len(d.found) |-> d.found[i].meta], TRUE, FALSE)

\* MobileSyncICloudAPI.plan_download, the loop body: a file whose stat fails
\* counts as 0 bytes
AddFile(acc, f) ==
    LET size == IF f.st_size # None THEN f.st_size[1] ELSE 0 IN
    PlanAcc(Append(acc.items, DownloadItem(f.path, f.path, size)), acc.total_bytes + size)

RECURSIVE FileItems(_, _)
FileItems(files, acc) ==
    IF files = <<>> THEN acc ELSE FileItems(Tail(files), AddFile(acc, Head(files)))

\* MobileSyncICloudAPI.plan_download
MobileSyncICloudAPI_plan_download(gate, roots, backup_id) ==
    LET g == require_private_access(gate, "device_backups")
        d == _discover_backups(roots)
        hit == SelectSeq(d.found, LAMBDA e : e.dir.name = backup_id)
    IN
    IF g.err.raised # "None" THEN SourceOutcome(g.err, <<>>, FALSE, FALSE)
    ELSE IF d.err.raised # "None" THEN SourceOutcome(d.err, <<>>, TRUE, FALSE)
    ELSE IF hit = <<>>
    THEN SourceOutcome(Error("FileNotFoundError", "NotInMobileSync"), <<>>, TRUE, FALSE)
    ELSE
    LET meta == hit[1].meta
        built == FileItems(hit[1].dir.files, PlanAcc(<<>>, 0))
    IN  SourceOutcome(NoError,
            DownloadPlan(BackupMeta(meta.identifier, meta.device_name, meta.created_at,
                                    IF built.total_bytes # 0 THEN built.total_bytes
                                    ELSE meta.approx_size_bytes,
                                    meta.source),
                         Len(built.items), built.total_bytes, built.items),
            TRUE, FALSE)

(***************************************************************************)
(* agents/icloud_api_agent.py: CloudBackupICloudAPI (remote source)        *)
(***************************************************************************)
\* JSON values as response.json() returns them. Finite numbers are integers
\* held as thousands and units (k * 1000 + u, 0 <= u < 1000) so that epoch
\* milliseconds fit; the floats are the non-finite ones.
JNull == [t |-> "null"]

JInt(n) == [t |-> "int", k |-> n \div 1000, u |-> n % 1000]

JMillis(k, u) == [t |-> "int", k |-> k, u |-> u]

JFloat(cls) == [t |-> "float", cls |-> cls]

JStr(text) == [t |-> "str", v |-> text]

\* a mapping: its (key, value) pairs in insertion order
JDict(items) == [t |-> "dict", items |-> items]

JList(items) == [t |-> "list", items |-> items]

\* key in node
Has(node, key) == \E i \in 1..Len(node.items) : node.items[i][1] = key

\* node.get(key)
Get(node, key) ==
    IF Has(node, key)
    THEN node.items[CHOOSE i \in 1..Len(node.items) : node.items[i][1] = key][2]
    ELSE JNull

\* bool(value)
Truthy(value) ==
    CASE value.t = "null" -> FALSE
      [] value.t = "int" -> value.k # 0 \/ value.u # 0
      [] value.t = "float" -> TRUE
      [] value.t = "str" -> value.v # ""
      [] OTHER -> value.items # <<>>

IsContainer(value) == value.t \in {"dict", "list"}

\* an integer of the payload as a number
IntValue(value) == value.k * 1000 + value.u

Pad(n, width) ==
    IF width = 2 THEN (IF n < 10 THEN "0" ELSE "") \o ToString(n)
    ELSE IF width = 3
    THEN (IF n < 10 THEN "00" ELSE IF n < 100 THEN "0" ELSE "") \o ToString(n)
    ELSE (IF n < 10 THEN "000" ELSE IF n < 100 THEN "00" ELSE IF n < 1000 THEN "0" ELSE "")
         \o ToString(n)

\* str(value)
py_str(value) ==
    CASE value.t = "null" -> "None"
      [] value.t = "int" -> IF value.k > 0 THEN ToString(value.k) \o Pad(value.u, 3)
                            ELSE ToString(IntValue(value))
      [] value.t = "float" -> value.cls
      [] value.t = "str" -> value.v
      [] value.t = "dict" -> IF value.items = <<>> THEN "{}" ELSE "{...}"
      [] OTHER -> IF value.items = <<>> THEN "[]" ELSE "[...]"

\* str.strip() on the texts the payloads carry
str_strip(text) ==
    CASE text = " 2048 " -> "2048"
      [] text = "   " -> ""
      [] OTHER -> text

\* float(text) on the texts the payloads carry: the class of the float and,
\* for a finite one, its integral part; ValueError for the rest
float_of_str(text) ==
    CASE text = "2048" -> [err |-> NoError, cls |-> "finite", whole |-> 2048]
      [] text = "12.7" -> [err |-> NoError, cls |-> "finite", whole |-> 12]
      [] text = "-5" -> [err |-> NoError, cls |-> "finite", whole |-> -5]
      [] text = "1700000000" -> [err |-> NoError, cls |-> "finite", whole |-> 1700000000]
      [] text \in {"inf", "Infinity", "1e400"} -> [err |-> NoError, cls |-> "inf", whole |-> 0]
      [] text = "-inf" -> [err |-> NoError, cls |-> "-inf", whole |-> 0]
      [] text = "nan" -> [err |-> NoError, cls |-> "nan", whole |-> 0]
      [] OTHER -> [err |-> Error("ValueError", "NotAFloat"), cls |-> "nan", whole |-> 0]

\* int(float_value): a non-finite float cannot be converted
int_of_float(cls, whole) ==
    CASE cls = "finite" -> [err |-> NoError, val |-> whole]
      [] cls = "nan" -> [err |-> Error("ValueError", "NaNToInt"), val |-> 0]
      [] OTHER -> [err |-> Error("OverflowError", "InfinityToInt"), val |-> 0]

\* int(float(cleaned))
FloatToInt(f) ==
    IF f.err.raised # "None" THEN [err |-> f.err, val |-> 0] ELSE int_of_float(f.cls, f.whole)

\* _parse_int, the body of the try block
Convert(value) ==
    CASE value.t = "null" -> [err |-> NoError, val |-> 0]
      [] value.t = "int" -> [err |-> NoError, val |-> IntValue(value)]
      [] value.t = "float" -> int_of_float(value.cls, 0)
      [] str_strip(py_str(value)) = "" -> [err |-> NoError, val |-> 0]
      [] OTHER -> FloatToInt(float_of_str(str_strip(py_str(value))))

\* _parse_int, the except clause: ValueError and TypeError are answered with
\* 0, any other error is raised
Caught(r) ==
    IF r.err.raised \in {"ValueError", "TypeError"} THEN [err |-> NoError, val |-> 0] ELSE r

\* _parse_int
_parse_int(value) == Caught(Convert(value))

\* the parsed text is returned as it was written
isoformat_of_str_keepingZ(text) ==
    IF text \in {"2024-01-01T00:00:00Z", "2024-01-01T00:00:00+00:00", "2024-01-01",
                 "2024-01-01T00:00Z", "2024-01-01T00:00:00.123Z"}
    THEN [err |-> NoError, val |-> text]
    ELSE [err |-> Error("ValueError", "NotIsoFormat"), val |-> ""]

\* datetime.fromisoformat(text.replace("Z", "+00:00")).isoformat() on the
\* texts the payloads carry; ValueError for the rest. isoformat() always
\* writes the seconds, and a fraction in six digits
isoformat_of_str(text) ==
    CASE text = "2024-01-01T00:00:00Z" -> [err |-> NoError, val |-> "2024-01-01T00:00:00+00:00"]
      [] text = "2024-01-01T00:00:00+00:00" ->
            [err |-> NoError, val |-> "2024-01-01T00:00:00+00:00"]
      [] text = "2024-01-01" -> [err |-> NoError, val |-> "2024-01-01T00:00:00"]
      [] text = "2024-01-01T00:00Z" -> [err |-> NoError, val |-> "2024-01-01T00:00:00+00:00"]
      [] text = "2024-01-01T00:00:00.123Z" ->
            [err |-> NoError, val |-> "2024-01-01T00:00:00.123000+00:00"]
      [] OTHER -> [err |-> Error("ValueError", "NotIsoFormat"), val |-> ""]

\* str.isdigit() and int(text) on the texts the payloads carry
isdigit(text) == text \in {"2048", "1700000000"}

int_of_digits(text) == IF text = "2048" THEN 2048 ELSE 1700000000

\* the calendar date of a day count since 1970-01-01 (proleptic Gregorian),
\* computed era, day of era, year of era, day of year, month in turn
CivilDate(y, m, d) == [year |-> y + (IF m <= 2 THEN 1 ELSE 0), month |-> m, day |-> d]

CivilOfMonth(y, doy, mp) ==
    CivilDate(y, IF mp < 10 THEN mp + 3 ELSE mp - 9, doy - ((153 * mp + 2) \div 5) + 1)

CivilOfDay(y, doy) == CivilOfMonth(y, doy, (5 * doy + 2) \div 153)

CivilOfYear(era, doe, yoe) ==
    CivilOfDay(yoe + era * 400, doe - (365 * yoe + (yoe \div 4) - (yoe \div 100)))

CivilOfDoe(era, doe) ==
    CivilOfYear(era, doe,
                (doe - (doe \div 1460) + (doe \div 36524) - (doe \div 146096)) \div 365)

CivilOfEra(z, era) == CivilOfDoe(era, z - era * 146097)

civil_from_days(days) == CivilOfEra(days + 719468, (days + 719468) \div 146097)

\* datetime.isoformat() of a UTC date, second of the day and microsecond;
\* the years 1..9999 are representable
IsoOf(date, sod, micro) ==
    IF date.year < 1 \/ date.year > 9999
    THEN [err |-> Error("ValueError", "YearOutOfRange"), val |-> ""]
    ELSE [err |-> NoError,
          val |-> Pad(date.year, 4) \o "-" \o Pad(date.month, 2) \o "-" \o Pad(date.day, 2)
                  \o "T" \o Pad(sod \div 3600, 2) \o ":" \o Pad((sod % 3600) \div 60, 2)
                  \o ":" \o Pad(sod % 60, 2)
                  \o (IF micro = 0 THEN ""
                      ELSE "." \o Pad(micro \div 1000, 3) \o Pad(micro % 1000, 3))
                  \o "+00:00"]

\* datetime.fromtimestamp(seconds, tz=timezone.utc).isoformat() for the
\* instant k * 1000 + u seconds plus micro microseconds
utc_isoformat(k, u, micro) ==
    IsoOf(civil_from_days(5 * (k \div 432) + ((1000 * (k % 432) + u) \div 86400)),
          (1000 * (k % 432) + u) % 86400, micro)

\* seconds >= 1_000_000_000_000
IsMillis_inclusive(value) == value.k >= 1000000000

\* seconds > 1_000_000_000_000
IsMillis(value) == value.k > 1000000000 \/ (value.k = 1000000000 /\ value.u > 0)

\* the except clause of the conversion: the text of the value
OrText(made, value) ==
    IF made.err.raised # "None" THEN [err |-> NoError, val |-> py_str(value)] ELSE made

\* _normalise_timestamp, the numeric branch: above 10^12 the number is taken
\* as milliseconds; a non-finite float cannot be converted
NormaliseNumber(value) ==
    IF value.t = "float" THEN [err |-> NoError, val |-> py_str(value)]
    ELSE OrText(utc_isoformat(IF IsMillis(value) THEN value.k \div 1000 ELSE value.k,
                              IF IsMillis(value) THEN value.k % 1000 ELSE value.u,
                              IF IsMillis(value) THEN value.u * 1000 ELSE 0),
                value)

\* _normalise_timestamp, the text branch: the result, or the number the
\* digits stand for, which the numeric branch then takes
NormaliseText(value, cleaned) ==
    IF cleaned = "" THEN [done |-> TRUE, val |-> "", value |-> value]
    ELSE IF isoformat_of_str(cleaned).err.raised = "None"
    THEN [done |-> TRUE, val |-> isoformat_of_str(cleaned).val, value |-> value]
    ELSE IF isdigit(cleaned)
    THEN [done |-> FALSE, val |-> "", value |-> JInt(int_of_digits(cleaned))]
    ELSE [done |-> TRUE, val |-> cleaned, value |-> value]

\* _normalise_timestamp from the numeric branch on
NormaliseRest(step) ==
    IF step.done THEN [err |-> NoError, val |-> step.val]
    ELSE IF step.value.t \in {"int", "float"} THEN NormaliseNumber(step.value)
    ELSE [err |-> NoError, val |-> py_str(step.value)]

\* _normalise_timestamp
_normalise_timestamp(value) ==
    NormaliseRest(IF value.t = "null" THEN [done |-> TRUE, val |-> "", value |-> value]
                  ELSE IF value.t = "str" THEN NormaliseText(value, str_strip(value.v))
                  ELSE [done |-> FALSE, val |-> "", value |-> value])

NameKeys ==
    <<"deviceName", "deviceDisplayName", "name", "displayName", "productName",
      "modelDisplayName">>

DeviceIdKeys == <<"backupUDID", "backupUUID", "uniqueIdentifier", "udid", "deviceID", "deviceUdid">>

\* str.lower() on the device identifier keys
lower(key) ==
    CASE key = "backupUDID" -> "backupudid"
      [] key = "backupUUID" -> "backupuuid"
      [] key = "uniqueIdentifier" -> "uniqueidentifier"
      [] key = "deviceID" -> "deviceid"
      [] key = "deviceUdid" -> "deviceudid"
      [] OTHER -> key

IdentifierKeys ==
    <<"snapshotID", "snapshotId", "snapshotUUID", "snapshotGuid", "backupUUID", "backupUDID",
      "uniqueIdentifier", "udid", "id">>

TimestampKeys ==
    <<"snapshotTimestamp", "snapshotDate", "modificationTimestamp", "modificationTime",
      "lastModified", "lastUpdate", "lastUpdateTimestamp", "lastBackupDate", "date">>

SizeKeys ==
    <<"sizeInBytes", "snapshotSize", "size", "backupSize", "storageUsed", "quotaUsedInBytes",
      "bytesUsed">>

SnapshotListKeys == <<"snapshots", "snapshotList", "snapshotInfos", "snapshotInfoList">>

\* spellings of the keys whose lower-case form is snapshotid, snapshotuuid
\* or snapshotguid
SnapshotIdSpellings ==
    {"snapshotID", "snapshotId", "snapshotid", "snapshotUUID", "snapshotUuid", "snapshotuuid",
     "snapshotGUID", "snapshotGuid", "snapshotguid"}

\* the positions in keys of the keys that are in good
Hits(keys, good) == {i \in 1..Len(keys) : keys[i] \in good}

\* for key in keys: ... break: the first key of keys that is in good, "" when
\* there is none
FirstKey(keys, good) ==
    IF Hits(keys, good) = {} THEN ""
    ELSE keys[CHOOSE i \in Hits(keys, good) : \A j \in Hits(keys, good) : i <= j]

KeysOf(keys) == {keys[i] : i \in 1..Len(keys)}

\* the keys of keys the mapping holds, holds with a value other than None,
\* and holds with a true value
KeysIn(node, keys) == {key \in KeysOf(keys) : Has(node, key)}

KeysSet(node, keys) == {key \in KeysOf(keys) : Get(node, key).t # "null"}

KeysTrue(node, keys) == {key \in KeysOf(keys) : Truthy(Get(node, key))}

\* _maybe_snapshot
_maybe_snapshot(node) ==
    \E i \in 1..Len(node.items) : node.items[i][1] \in SnapshotIdSpellings

\* _contains_snapshots
_contains_snapshots(node) ==
    \E i \in 1..Len(SnapshotListKeys) :
        /\ Get(node, SnapshotListKeys[i]).t = "list"
        /\ Get(node, SnapshotListKeys[i]).items # <<>>

\* node.get(key) or node.get(key.lower())
GetEitherCase(node, key) ==
    IF Truthy(Get(node, key)) THEN Get(node, key) ELSE Get(node, lower(key))

\* str(value) of a true value, else ""
TextIfTrue(value) == IF Truthy(value) THEN py_str(value) ELSE ""

\* _device_identifier_from
_device_identifier_from(node) ==
    TextIfTrue(GetEitherCase(node,
                             FirstKey(DeviceIdKeys,
                                      {key \in KeysOf(DeviceIdKeys) :
                                          Truthy(GetEitherCase(node, key))})))

\* _device_name_from
_device_name_from(node) == TextIfTrue(Get(node, FirstKey(NameKeys, KeysTrue(node, NameKeys))))

\* the context handed down the traversal; an unset entry is None
Context(device_name, device_identifier, last_timestamp, size) ==
    [device_name |-> device_name, device_identifier |-> device_identifier,
     last_timestamp |-> last_timestamp, size |-> size]

\* dict.setdefault: an entry that is set already is kept
setdefault(entry, value) == IF entry = None THEN Some(value) ELSE entry

\* if text: new_context.setdefault(..., text)
SetText(entry, text) == IF text # "" THEN setdefault(entry, text) ELSE entry

\* the loop over keys that sets the entry from the first key present with a
\* value other than None
SetFirst(entry, node, key) == IF key # "" THEN setdefault(entry, Get(node, key)) ELSE entry

\* CloudBackupICloudAPI._iter_backups, the context built for a mapping
new_context(node, context) ==
    Context(SetText(context.device_name, _device_name_from(node)),
            SetText(context.device_identifier, _device_identifier_from(node)),
            SetFirst(context.last_timestamp, node,
                     FirstKey(TimestampKeys, KeysSet(node, TimestampKeys))),
            SetFirst(context.size, node, FirstKey(SizeKeys, KeysSet(node, SizeKeys))))

\* the (value, context) pairs of the values of a mapping that are containers
PushValues(held, context) == [i \in 1..Len(held) |-> <<held[i][2], context>>]

\* the (item, context) pairs of the items of a list
PushItems(items, context) == [i \in 1..Len(items) |-> <<items[i], context>>]

\* CloudBackupICloudAPI._iter_backups, the test before the yield
IsCandidate(node) ==
    _maybe_snapshot(node) \/ (~_contains_snapshots(node) /\ _device_identifier_from(node) # "")

\* CloudBackupICloudAPI._iter_backups: the stack is popped from its end; the
\* candidates are collected in the order they are yielded
RECURSIVE _iter_backups(_, _)
\* the step for a mapping, with the context built for it
VisitMapping(rest, yielded, node, ctx) ==
    _iter_backups(rest \o PushValues(SelectSeq(node.items, LAMBDA item : IsContainer(item[2])),
                                     ctx),
                  IF IsCandidate(node) THEN Append(yielded, <<node, ctx>>) ELSE yielded)

\* the step for the entry popped from the stack
Visit(rest, yielded, node, context) ==
    IF node.t = "dict" THEN VisitMapping(rest, yielded, node, new_context(node, context))
    ELSE IF node.t = "list" THEN _iter_backups(rest \o PushItems(node.items, context), yielded)
    ELSE _iter_backups(rest, yielded)

_iter_backups(stack, yielded) ==
    IF stack = <<>> THEN yielded
    ELSE Visit(SubSeq(stack, 1, Len(stack) - 1), yielded, stack[Len(stack)][1],
               stack[Len(stack)][2])

\* the device identifier of the context is taken before the candidate's own
IdentifierOf_inheritedFirst(own, context) ==
    IF context.device_identifier # None THEN context.device_identifier[1]
    ELSE own

\* the identifier of a candidate: its own, else the device identifier of the
\* context, else none
IdentifierOf(own, context) ==
    IF own # "" THEN own
    ELSE IF context.device_identifier # None THEN context.device_identifier[1]
    ELSE ""

\* _device_name_from(node) or context.get("device_name") or "Bilinmeyen Cihaz"
DeviceNameOf(own, context) ==
    IF own # "" THEN own
    ELSE IF context.device_name # None /\ context.device_name[1] # ""
    THEN context.device_name[1]
    ELSE "Bilinmeyen Cihaz"

\* context.get(entry)
ContextGet(entry) == IF entry # None THEN entry[1] ELSE JNull

\* the timestamp of a candidate: of the first timestamp key it holds, else of
\* the context
TimestampOf(own, context) ==
    IF own.err.raised # "None" \/ own.val # "" THEN own
    ELSE _normalise_timestamp(ContextGet(context.last_timestamp))

OwnTimestamp(node, key) ==
    IF key # "" THEN _normalise_timestamp(Get(node, key)) ELSE [err |-> NoError, val |-> ""]

\* the size of a candidate: of the first size key it holds, else of the context
SizeOf(own, context) ==
    IF own.err.raised # "None" \/ own.val # 0 THEN own
    ELSE _parse_int(ContextGet(context.size))

OwnSize(node, key) ==
    IF key # "" THEN _parse_int(Get(node, key)) ELSE [err |-> NoError, val |-> 0]

\* the record of a candidate, none when it has no identifier, or the error a
\* conversion raised
MakeMeta(identifier, device_name, timestamp, size) ==
    IF identifier = "" THEN [err |-> NoError, meta |-> None]
    ELSE IF timestamp.err.raised # "None" THEN [err |-> timestamp.err, meta |-> None]
    ELSE IF size.err.raised # "None" THEN [err |-> size.err, meta |-> None]
    ELSE [err |-> NoError,
          meta |-> Some(BackupMeta(identifier, device_name, timestamp.val, size.val, "icloud"))]

\* CloudBackupICloudAPI._parse_backups, the loop body
ParseCandidate(node, context) ==
    MakeMeta(IdentifierOf(TextIfTrue(Get(node, FirstKey(IdentifierKeys,
                                                         KeysTrue(node, IdentifierKeys)))),
                          context),
             DeviceNameOf(_device_name_from(node), context),
             TimestampOf(OwnTimestamp(node, FirstKey(TimestampKeys,
                                                     KeysIn(node, TimestampKeys))),
                         context),
             SizeOf(OwnSize(node, FirstKey(SizeKeys, KeysIn(node, SizeKeys))), context))

\* dict assignment: replace the value under an existing key in place, else append
Upsert(metas, meta) ==
    LET pos == {i \in 1..Len(metas) : metas[i].identifier = meta.identifier} IN
    IF pos = {} THEN Append(metas, meta)
    ELSE [metas EXCEPT ![CHOOSE i \in pos : TRUE] = meta]

RECURSIVE UpsertAll(_, _)
UpsertAll(metas, more) ==
    IF more = <<>> THEN metas ELSE UpsertAll(Upsert(metas, Head(more)), Tail(more))

RECURSIVE ParseFrom(_, _)
\* the loop after one candidate was converted
ParseNext(made, rest, metas) ==
    IF made.err.raised # "None" THEN [err |-> made.err, metas |-> <<>>]
    ELSE ParseFrom(rest, IF made.meta = None THEN metas ELSE Upsert(metas, made.meta[1]))

ParseFrom(candidates, metas) ==
    IF candidates = <<>> THEN [err |-> NoError, metas |-> metas]
    ELSE ParseNext(ParseCandidate(Head(candidates)[1], Head(candidates)[2]),
                   Tail(candidates), metas)

\* CloudBackupICloudAPI._parse_backups: the records, or the error raised on the way
_parse_backups(payload) ==
    ParseFrom(_iter_backups(<<<<payload, Context(None, None, None, None)>>>>, <<>>), <<>>)

\* a mapping of the remote payload holding the keys that are given
Node(snapshotID, backupUDID, deviceName, snapshotSize) ==
    JDict((IF snapshotID # None THEN <<<<"snapshotID", JStr(snapshotID[1])>>>> ELSE <<>>)
          \o (IF backupUDID # None THEN <<<<"backupUDID", JStr(backupUDID[1])>>>> ELSE <<>>)
          \o (IF deviceName # None THEN <<<<"deviceName", JStr(deviceName[1])>>>> ELSE <<>>)
          \o (IF snapshotSize # None THEN <<<<"snapshotSize", snapshotSize[1]>>>> ELSE <<>>))

\* the mapping _fetch_payload returns when it got nothing
EmptyMapping == JDict(<<>>)

\* remote payloads: nothing, a list of device and snapshot mappings, and a
\* list whose snapshot reports an infinite size
Payloads ==
    {EmptyMapping,
     JList(<<Node(Some("S1"), None, Some("iPhone"), Some(JInt(2048)))>>),
     JList(<<Node(Some("A"), None, None, None),
             Node(None, Some("U1"), Some("iPad"), Some(JInt(10))),
             Node(None, None, Some("stray"), Some(JInt(1)))>>),
     JList(<<Node(Some("S1"), None, Some("iPhone"), Some(JFloat("inf")))>>)}

\* _parse_backups of each payload the endpoint can answer with
ParsedPayloads == [payload \in Payloads |-> _parse_backups(payload)]

\* what the endpoint answers to the POST and to the GET
HttpResults == {"ok", "401", "500", "timeout"}

Response(post, get, payload) == [post |-> post, get |-> get, payload |-> payload]

\* a payload is delivered by the first request that succeeds
NetStates ==
    {Response("ok", "ok", p) : p \in Payloads}
    \cup {Response("500", "ok", CHOOSE p \in Payloads : p # EmptyMapping),
          Response("401", "ok", EmptyMapping),
          Response("timeout", "401", EmptyMapping),
          Response("500", "500", EmptyMapping),
          Response("timeout", "timeout", EmptyMapping)}

\* ICloudPyAuthAgent.require_authenticated_service
require_authenticated_service(svc) ==
    IF svc = None
    THEN [err |-> Error("AuthenticationError", "NoSession"), svc |-> None]
    ELSE [err |-> NoError, svc |-> svc]

\* what _fetch_payload hands back: error, payload, whether a request was
\* sent, and whether the failure of both requests was logged
Fetched(err, payload, net, logged) ==
    [err |-> err, payload |-> payload, net |-> net, logged |-> logged]

\* both requests failed: the last error is raised
BothFailed_raising == Fetched(Error("RequestException", "FetchFailed"), EmptyMapping, TRUE, TRUE)

\* CloudBackupICloudAPI._fetch_payload, after the loop: the last error is
\* logged at debug level and an empty mapping is returned
BothFailed == Fetched(NoError, EmptyMapping, TRUE, TRUE)

\* CloudBackupICloudAPI._fetch_payload
_fetch_payload(svc, net) ==
    LET auth == require_authenticated_service(svc) IN
    IF auth.err.raised # "None" THEN Fetched(auth.err, EmptyMapping, FALSE, FALSE)
    ELSE IF net.post = "ok" THEN Fetched(NoError, net.payload, TRUE, FALSE)
    ELSE IF net.post = "401"
    THEN Fetched(Error("AuthenticationError", "SessionExpired"), EmptyMapping, TRUE, FALSE)
    ELSE IF net.get = "ok" THEN Fetched(NoError, net.payload, TRUE, FALSE)
    ELSE IF net.get = "401"
    THEN Fetched(Error("AuthenticationError", "SessionExpired"), EmptyMapping, TRUE, FALSE)
    ELSE BothFailed

\* the service handle as _backup_service_urls looks at it: its setup
\* endpoint, what _get_webservice_url("mobilebackup") returns when the
\* helper exists, and the url of data["webservices"]["mobilebackup"] when
\* that entry exists
ServiceStub(setup_endpoint, helper, webservices) ==
    [setup_endpoint |-> setup_endpoint, helper |-> helper, webservices |-> webservices]

ServiceStubs ==
    {ServiceStub("https://setup.icloud.com/setup/ws/1", helper, webservices) :
        helper \in {None, Some("https://p123-mobilebackup.icloud.com/mbs")},
        webservices \in {None, Some("https://setup.icloud.com/setup/ws/1/mobilebackup")}}

\* the url of the webservices data is tried before the looked-up one
_backup_service_urls_dataFirst(service) ==
    service.webservices \o service.helper \o <<service.setup_endpoint \o "/backup">>

\* CloudBackupICloudAPI._backup_service_urls: the looked-up url, the url of
\* the webservices data, the setup endpoint's backup path
_backup_service_urls(service) ==
    service.helper \o service.webservices \o <<service.setup_endpoint \o "/backup">>

\* the fallback chain a source is constructed with, nearest source first
Fallbacks == {<<>>, <<"mock">>, <<"mobilesync">>, <<"mobilesync", "mock">>}

MobileSyncFallbacks == {<<>>, <<"mock">>}

\* the fallback is not asked
Fallback_list_device_backups_unasked(fallback, gate, roots, data) ==
    SourceOutcome(NoError, <<>>, FALSE, FALSE)

\* self.fallback.list_device_backups(): the call goes to the nearest source
\* of the chain, which looks at its own fallback or not as its code has it
Fallback_list_device_backups(fallback, gate, roots, data) ==
    IF Head(fallback) = "mock" THEN MockICloudAPI_list_device_backups(gate, data)
    ELSE MobileSyncICloudAPI_list_device_backups(gate, roots)

\* self.fallback.plan_download(backup_id, destination)
Fallback_plan_download(fallback, gate, roots, data, backup_id) ==
    IF Head(fallback) = "mock" THEN MockICloudAPI_plan_download(gate, data, backup_id)
    ELSE MobileSyncICloudAPI_plan_download(gate, roots, backup_id)

\* CloudBackupICloudAPI.list_device_backups, the fallback constructed with a
\* PolicyGate of its own
CloudBackupICloudAPI_list_device_backups_with(gate, fallback_gate, svc, net, fallback, roots, data) ==
    LET g == require_private_access(gate, "device_backups")
        fetched == _fetch_payload(svc, net)
        parsed == ParsedPayloads[fetched.payload]
        cloud_backups == parsed.metas
        fb == IF fallback = <<>> THEN SourceOutcome(NoError, <<>>, FALSE, FALSE)
              ELSE Fallback_list_device_backups(fallback, fallback_gate, roots, data)
        fallback_backups == IF fb.err.raised = "None" THEN fb.result ELSE <<>>
    IN
    IF g.err.raised # "None" THEN SourceOutcome(g.err, <<>>, FALSE, FALSE)
    ELSE IF fetched.err.raised # "None" THEN SourceOutcome(fetched.err, <<>>, FALSE, fetched.net)
    ELSE IF parsed.err.raised # "None" THEN SourceOutcome(parsed.err, <<>>, FALSE, TRUE)
    ELSE IF fb.err.raised = "PermissionError" THEN SourceOutcome(fb.err, <<>>, fb.fs, TRUE)
    ELSE IF cloud_backups = <<>> THEN SourceOutcome(NoError, fallback_backups, fb.fs, TRUE)
    ELSE SourceOutcome(NoError, UpsertAll(fallback_backups, cloud_backups), fb.fs, TRUE)

\* CloudBackupICloudAPI.list_device_backups, the source and its fallback
\* sharing one PolicyGate
CloudBackupICloudAPI_list_device_backups(gate, svc, net, fallback, roots, data) ==
    CloudBackupICloudAPI_list_device_backups_with(gate, gate, svc, net, fallback, roots, data)

\* a plan_download outcome that also tells whether the fallback was called
PlanOutcome(err, result, fs, net, delegated) ==
    [err |-> err, result |-> result, fs |-> fs, net |-> net, delegated |-> delegated]

\* CloudBackupICloudAPI.plan_download
CloudBackupICloudAPI_plan_download(gate, svc, net, fallback, roots, data, backup_id) ==
    LET g == require_private_access(gate, "device_backups")
        fetched == _fetch_payload(svc, net)
        parsed == ParsedPayloads[fetched.payload]
        cloud_backups == parsed.metas
        cloud_ids == {cloud_backups[i].identifier : i \in 1..Len(cloud_backups)}
    IN
    IF g.err.raised # "None" THEN PlanOutcome(g.err, <<>>, FALSE, FALSE, FALSE)
    ELSE IF fetched.err.raised # "None"
    THEN PlanOutcome(fetched.err, <<>>, FALSE, fetched.net, FALSE)
    ELSE IF parsed.err.raised # "None" THEN PlanOutcome(parsed.err, <<>>, FALSE, TRUE, FALSE)
    ELSE IF backup_id \in cloud_ids
    THEN PlanOutcome(Error("NotImplementedError", "CloudDownloadUnsupported"), <<>>,
                     FALSE, TRUE, FALSE)
    ELSE IF fallback = <<>>
    THEN PlanOutcome(Error("FileNotFoundError", "NotInFallbacks"), <<>>, FALSE, TRUE, FALSE)
    ELSE LET fb == Fallback_plan_download(fallback, gate, roots, data, backup_id) IN
         PlanOutcome(fb.err, fb.result, fb.fs, TRUE, TRUE)

(***************************************************************************)
(* agents/storage_manager.py, download_manager.py, crypto_agent.py,        *)
(* report_agent.py: the collaborators of a download                        *)
(***************************************************************************)
\* the logical paths of the items the fixtures and the backup directories hold
DestPaths == {"f1", "f2", "f3", "g1", "g2", "Manifest.db", "ab/cd", "x"}

\* what the destination holds at each target path: nothing, a file, or a
\* directory (parent directories are made on demand and are not named here)
EmptyDestination == [p \in DestPaths |-> "absent"]

\* a destination the user has used before: a directory sits where g1 goes
UsedDestination == [EmptyDestination EXCEPT !["g1"] = "dir"]

\* a destination an earlier run copied g2 into, before g2's source file was
\* removed
LeftoverDestination == [EmptyDestination EXCEPT !["g2"] = "file"]

\* shutil.disk_usage(destination)
DiskUsage(total, free) == [total |-> total, free |-> free]

DiskUsages == {DiskUsage(1000, 1000), DiskUsage(1000, 400), DiskUsage(1000, 155)}

\* the preflight lets every request through
DiskStorageManager_ensure_capacity_open(required_bytes, usage) == NoError

\* DiskStorageManager.ensure_capacity, safety_ratio 0.15: OSError when the
\* space left after the download is negative or below 15% of the disk
DiskStorageManager_ensure_capacity(required_bytes, usage) ==
    IF usage.free - required_bytes < 0
       \/ (usage.free - required_bytes) * 100 < usage.total * 15
    THEN Error("OSError", "InsufficientDiskSpace")
    ELSE NoError

\* the files of the backup directory of the given name: path and size
DirEntries(dirs, name) ==
    UNION {{<<dirs[k].files[i].path, dirs[k].files[i].st_size>> : i \in 1..Len(dirs[k].files)} :
           k \in {k \in 1..Len(dirs) : dirs[k].name = name}}

\* the files of the fixture entry of the given id: source path and size on disk
FixtureEntries(data, id) ==
    UNION {{<<data[k].items[i].source_path, data[k].items[i].st_size>> :
            i \in 1..Len(data[k].items)} :
           k \in {k \in 1..Len(data) : data[k].id = id}}

\* the size of the file at a source path; None when it cannot be opened
OnDisk(entries, path) ==
    IF \E e \in entries : e[1] = path THEN (CHOOSE e \in entries : e[1] = path)[2] ELSE None

\* the source files of a planned backup as the filesystem presents them
SourceFiles(backup, roots, data) ==
    IF backup.source = "mobilesync" THEN DirEntries(DirsOf(roots), backup.identifier)
    ELSE FixtureEntries(data, backup.identifier)

\* LocalDownloadManager._copy_file: the source is opened, then the target is
\* opened for writing (a directory in its place cannot be), then the bytes
\* are copied
_copy_file(onDisk, target, dest) ==
    IF onDisk = None
    THEN [err |-> Error("FileNotFoundError", "NoSourceFile"), dest |-> dest, bytes_written |-> 0]
    ELSE IF dest[target] = "dir"
    THEN [err |-> Error("IsADirectoryError", "TargetIsDirectory"), dest |-> dest,
          bytes_written |-> 0]
    ELSE [err |-> NoError, dest |-> [dest EXCEPT ![target] = "file"],
          bytes_written |-> onDisk[1]]

\* the errors `except (FileNotFoundError, OSError)` catches
IsOSError(err) ==
    err.raised \in {"OSError", "FileNotFoundError", "IsADirectoryError", "PermissionError"}

DownloadResult(downloaded_bytes, downloaded_files, failed_items) ==
    [downloaded_bytes |-> downloaded_bytes, downloaded_files |-> downloaded_files,
     failed_items |-> failed_items]

\* the state of LocalDownloadManager.run between two items: the result so
\* far, the destination, the paths attempted, and an error that got through
RunAcc(result, dest, attempted, err) ==
    [result |-> result, dest |-> dest, attempted |-> attempted, err |-> err]

\* LocalDownloadManager.run, the loop body
RunStep(acc, item, copy) ==
    IF copy.err # NoError /\ IsOSError(copy.err)
    THEN RunAcc(DownloadResult(acc.result.downloaded_bytes, acc.result.downloaded_files,
                               Append(acc.result.failed_items, item)),
                acc.dest, Append(acc.attempted, item.logical_path), NoError)
    ELSE IF copy.err # NoError
    THEN RunAcc(acc.result, acc.dest, Append(acc.attempted, item.logical_path), copy.err)
    ELSE RunAcc(DownloadResult(acc.result.downloaded_bytes + copy.bytes_written,
                               acc.result.downloaded_files + 1, acc.result.failed_items),
                copy.dest, Append(acc.attempted, item.logical_path), NoError)

RECURSIVE RunItems(_, _, _)
RunItems(items, entries, acc) ==
    IF items = <<>> \/ acc.err # NoError THEN acc
    ELSE RunItems(Tail(items), entries,
                  RunStep(acc, Head(items),
                          _copy_file(OnDisk(entries, Head(items).source_path),
                                     Head(items).logical_path, acc.dest)))

\* LocalDownloadManager.run
LocalDownloadManager_run(plan, dest, entries) ==
    RunItems(plan.items, entries, RunAcc(DownloadResult(0, 0, <<>>), dest, <<>>, NoError))

VerificationReport(ok, hashed_files, failed_files) ==
    [ok |-> ok, hashed_files |-> hashed_files, failed_files |-> failed_files]

VerifyAcc(err, hashed, failed) == [err |-> err, hashed |-> hashed, failed |-> failed]

\* HashVerifier.verify, the loop: a missing target is listed as failed, any
\* other target is counted and then opened and read by _hash_file, which a
\* directory does not allow
RECURSIVE VerifyItems(_, _, _)
VerifyItems(items, dest, acc) ==
    IF items = <<>> THEN acc
    ELSE IF dest[Head(items).logical_path] = "absent"
    THEN VerifyItems(Tail(items), dest,
                     VerifyAcc(NoError, acc.hashed,
                               Append(acc.failed, Head(items).logical_path)))
    ELSE IF dest[Head(items).logical_path] = "dir"
    THEN VerifyAcc(Error("IsADirectoryError", "TargetIsDirectory"), acc.hashed + 1, acc.failed)
    ELSE VerifyItems(Tail(items), dest, VerifyAcc(NoError, acc.hashed + 1, acc.failed))

VerificationOf(acc) ==
    [err |-> acc.err, report |-> VerificationReport(acc.failed = <<>>, acc.hashed, acc.failed)]

\* the report says ok whatever targets are missing
HashVerifier_verify_lenient(dest, plan) ==
    [err |-> VerifyItems(plan.items, dest, VerifyAcc(NoError, 0, <<>>)).err,
     report |-> VerificationReport(TRUE,
                                   VerifyItems(plan.items, dest, VerifyAcc(NoError, 0, <<>>)).hashed,
                                   VerifyItems(plan.items, dest, VerifyAcc(NoError, 0, <<>>)).failed)]

\* HashVerifier.verify
HashVerifier_verify(dest, plan) ==
    VerificationOf(VerifyItems(plan.items, dest, VerifyAcc(NoError, 0, <<>>)))

\* JsonReportAgent.export: the path of the report file and what it holds
JsonReportAgent_export(plan, result, verification) ==
    [path |-> "reports/session.json",
     backup |-> plan.backup,
     download |-> [files |-> result.downloaded_files, bytes |-> result.downloaded_bytes,
                   failed |-> [i \in 1..Len(result.failed_items) |->
                                  result.failed_items[i].logical_path]],
     verification |-> verification]

(***************************************************************************)
(* orchestrator.py: list_backups, plan, download                           *)
(***************************************************************************)
\* the sources an orchestrator is constructed over, the called one first
ApiChains ==
    {<<"mock">>, <<"mobilesync">>, <<"mobilesync", "mock">>,
     <<"cloud">>, <<"cloud", "mobilesync", "mock">>}

\* self.api.list_device_backups()
Api_list_device_backups(chain, gate, svc, net, roots, data) ==
    IF Head(chain) = "cloud"
    THEN CloudBackupICloudAPI_list_device_backups(gate, svc, net, Tail(chain), roots, data)
    ELSE Fallback_list_device_backups(chain, gate, roots, data)

\* self.api.plan_download(backup_id, destination)
Api_plan_download(chain, gate, svc, net, roots, data, backup_id) ==
    IF Head(chain) = "cloud"
    THEN CloudBackupICloudAPI_plan_download(gate, svc, net, Tail(chain), roots, data, backup_id)
    ELSE Fallback_plan_download(chain, gate, roots, data, backup_id)

\* what an orchestrator call leaves: the error raised or the value returned,
\* the audit entries it recorded, the collaborators it called in order, and
\* the destination afterwards
Outcome(err, result, entries, stages, dest) ==
    [err |-> err, result |-> result, entries |-> entries, stages |-> stages, dest |-> dest]

\* the policy violation is raised to the caller as it is
_policy_denied_unchanged(exc, stages, dest) == Outcome(exc, <<>>, <<>>, stages, dest)

\* Orchestrator._policy_denied and the raise that follows it
_policy_denied(exc, stages, dest) ==
    Outcome(Error("PermissionError", "EnablePrivateAccess"), <<>>,
            <<Entry("policy_denied", [capability |-> "device_backups", reason |-> exc.msg])>>,
            stages, dest)

\* Orchestrator.list_backups
Orchestrator_list_backups(listed, dest) ==
    IF listed.err.raised = "PolicyViolation"
    THEN _policy_denied(listed.err, <<"list_device_backups">>, dest)
    ELSE IF listed.err # NoError
    THEN Outcome(listed.err, <<>>, <<>>, <<"list_device_backups">>, dest)
    ELSE Outcome(NoError,
                 [i \in 1..Len(listed.result) |->
                     <<listed.result[i].identifier, listed.result[i].device_name,
                       listed.result[i].created_at, listed.result[i].approx_size_bytes>>],
                 <<>>, <<"list_device_backups">>, dest)

\* Orchestrator.plan
Orchestrator_plan(planned, dest) ==
    IF planned.err.raised = "PolicyViolation"
    THEN _policy_denied(planned.err, <<"plan_download">>, dest)
    ELSE IF planned.err # NoError
    THEN Outcome(planned.err, <<>>, <<>>, <<"plan_download">>, dest)
    ELSE Outcome(NoError,
                 <<planned.result.backup.device_name, planned.result.total_files,
                   planned.result.total_bytes>>,
                 <<>>, <<"plan_download">>, dest)

DownloadStart(backup_id, plan) ==
    Entry("download_start",
          [backup_id |-> backup_id, files |-> plan.total_files, bytes |-> plan.total_bytes])

DownloadComplete(backup_id, result, verification) ==
    Entry("download_complete",
          [backup_id |-> backup_id, downloaded_bytes |-> result.downloaded_bytes,
           downloaded_files |-> result.downloaded_files, verification_ok |-> verification.ok])

\* what download returns: plan, result, verification, report; with them the
\* logical paths the transfer attempted, in order
Returned(plan, result, verification, report, attempted) ==
    [plan |-> plan, result |-> result, verification |-> verification, report |-> report,
     attempted |-> attempted]

\* the completion of the download is not recorded
AfterVerify_silent(backup_id, plan, ran, verified) ==
    IF verified.err # NoError
    THEN Outcome(verified.err, Returned(plan, ran.result, verified.report, <<>>, ran.attempted),
                 <<DownloadStart(backup_id, plan)>>,
                 <<"plan_download", "ensure_capacity", "run", "verify">>, ran.dest)
    ELSE Outcome(NoError,
                 Returned(plan, ran.result, verified.report,
                          JsonReportAgent_export(plan, ran.result, verified.report),
                          ran.attempted),
                 <<DownloadStart(backup_id, plan)>>,
                 <<"plan_download", "ensure_capacity", "run", "verify", "export">>, ran.dest)

\* Orchestrator.download from the verification on: an error of the verifier
\* is raised; its report, ok or not, is recorded and exported
AfterVerify(backup_id, plan, ran, verified) ==
    IF verified.err # NoError
    THEN Outcome(verified.err, Returned(plan, ran.result, verified.report, <<>>, ran.attempted),
                 <<DownloadStart(backup_id, plan)>>,
                 <<"plan_download", "ensure_capacity", "run", "verify">>, ran.dest)
    ELSE Outcome(NoError,
                 Returned(plan, ran.result, verified.report,
                          JsonReportAgent_export(plan, ran.result, verified.report),
                          ran.attempted),
                 <<DownloadStart(backup_id, plan),
                   DownloadComplete(backup_id, ran.result, verified.report)>>,
                 <<"plan_download", "ensure_capacity", "run", "verify", "export">>, ran.dest)

\* Orchestrator.download from the transfer on
AfterRun(backup_id, plan, ran) ==
    IF ran.err # NoError
    THEN Outcome(ran.err, Returned(plan, ran.result, <<>>, <<>>, ran.attempted),
                 <<DownloadStart(backup_id, plan)>>,
                 <<"plan_download", "ensure_capacity", "run">>, ran.dest)
    ELSE AfterVerify(backup_id, plan, ran, HashVerifier_verify(ran.dest, plan))

\* Orchestrator.download from the capacity preflight on
AfterPlan(backup_id, plan, capacity, dest, entries) ==
    IF capacity # NoError
    THEN Outcome(capacity, Returned(plan, <<>>, <<>>, <<>>, <<>>), <<>>,
                 <<"plan_download", "ensure_capacity">>, dest)
    ELSE AfterRun(backup_id, plan, LocalDownloadManager_run(plan, dest, entries))

\* Orchestrator.download
Orchestrator_download(planned, backup_id, usage, dest, roots, data) ==
    IF planned.err.raised = "PolicyViolation"
    THEN _policy_denied(planned.err, <<"plan_download">>, dest)
    ELSE IF planned.err # NoError
    THEN Outcome(planned.err, <<>>, <<>>, <<"plan_download">>, dest)
    ELSE AfterPlan(backup_id, planned.result,
                   DiskStorageManager_ensure_capacity(planned.result.total_bytes, usage),
                   dest, SourceFiles(planned.result.backup, roots, data))

(***************************************************************************)
(* Actions                                                                 *)
(***************************************************************************)
srcVars == <<fsReads, netRequests>>

guiVars == <<threads, _awaiting_2fa, owner>>

MaxThreads == 2

Threads == 1..MaxThreads

\* a worker thread: its position and the locals of the call it runs
Thread(pc, args, service, device, held, err, requires2FA, session) ==
    [pc |-> pc, args |-> args, service |-> service, device |-> device, held |-> held,
     err |-> err, requires2FA |-> requires2FA, session |-> session]

NotStarted == Thread("idle", <<>>, None, None, 0, NoError, FALSE, None)

\* BackupGUI.__init__: no worker started, the code entry disabled
GuiIdle ==
    /\ threads = [t \in Threads |-> NotStarted]
    /\ _awaiting_2fa = FALSE
    /\ owner = [svc |-> 0, pend |-> 0]

\* the sign-in data that can matter to a call: the provider returns account
\* data only for a sign-in that goes through
SignInData(apple_id, password, fault) ==
    IF apple_id # "" /\ password = GoodPassword /\ fault = "none"
    THEN ServiceEnvs
    ELSE {CHOOSE env \in ServiceEnvs : TRUE}

\* service.send_verification_code is reached only with a device to send to
SendResults(env) ==
    IF requires_2sa(env) /\ env.devices # <<>> THEN BOOLEAN ELSE {TRUE}

\* Orchestrator.start_login
StartLogin ==
    \E apple_id \in AppleIds, password \in Passwords, fault \in Faults :
      \E env \in SignInData(apple_id, password, fault) :
        \E sendOk \in SendResults(env) :
          LET r == start_login(apple_id, password, env, fault, sendOk, CurrentAgent) IN
          /\ SetAgent(r.st)
          /\ flow' = FlowAfterLogin(r, flow)
          /\ loginSucceeded' = (loginSucceeded \/ (r.err.raised = "None" /\ Len(r.entries) = 2))
          /\ log' = r.entries
          /\ last' = AuthOutcome("start_login", <<apple_id, password>>, r.err, r.requires2FA,
                                 r.session, None, "none")
          /\ UNCHANGED <<destination, allow_private_endpoints, srcVars, guiVars>>

\* Orchestrator.complete_two_factor
CompleteTwoFactor ==
    \E code \in Codes, fault \in Faults :
        LET r == complete_two_factor(code, fault, allow_private_endpoints, CurrentAgent) IN
        /\ SetAgent(r.st)
        /\ flow' = FlowAfterSubmit(r, flow)
        /\ log' = r.entries
        /\ last' = AuthOutcome("complete_two_factor", <<code>>, r.err, FALSE, r.session,
                               r.device, fault)
        /\ UNCHANGED <<destination, allow_private_endpoints, loginSucceeded, srcVars, guiVars>>

\* ICloudPyAuthAgent.load_session called on its own
LoadSession ==
    /\ last' = AuthOutcome("load_session", <<>>, NoError, FALSE, load_session(CurrentAgent),
                           None, "none")
    /\ log' = <<>>
    /\ UNCHANGED <<destination, allow_private_endpoints, authVars, srcVars, guiVars>>

\* PolicyGate.require_private_access called on its own
RequirePrivateAccess ==
    \E capability \in Capabilities :
        LET r == require_private_access(allow_private_endpoints, capability) IN
        /\ allow_private_endpoints' = r.gate
        /\ last' = [op |-> "require_private_access", args |-> <<capability>>, err |-> r.err,
                    gate_before |-> allow_private_endpoints]
        /\ log' = <<>>
        /\ fsReads' = FALSE
        /\ netRequests' = FALSE
        /\ UNCHANGED <<destination, authVars, guiVars>>

BackupIds == {"A", "B", "F", "S1", "zz"}

\* the records a source of the given kind holds itself, its fallback aside
OwnRecords(kind, svc, net, roots, data) ==
    IF kind = "mock" THEN MockMetas(data)
    ELSE IF kind = "mobilesync"
    THEN LET d == _discover_backups(roots) IN [i \in 1..Len(d.found) |-> d.found[i].meta]
    ELSE ParsedPayloads[_fetch_payload(svc, net).payload].metas

\* what a listing call was made on: the chain of sources (the called one
\* first), each source's own records, what the roots presented, the error
\* of the remote fetch if any and whether its failure was logged
ListFacts(chain, svc, net, roots, data) ==
    [chain |-> chain,
     fetch_err |-> IF chain[1] = "cloud" THEN _fetch_payload(svc, net).err ELSE NoError,
     logged |-> chain[1] = "cloud" /\ _fetch_payload(svc, net).logged,
     layers |-> [k \in 1..Len(chain) |-> OwnRecords(chain[k], svc, net, roots, data)],
     root_kinds |-> IF \E k \in 1..Len(chain) : chain[k] = "mobilesync"
                    THEN [i \in 1..Len(roots) |-> roots[i].kind] ELSE <<>>,
     yielded |-> (\E k \in 1..Len(chain) : chain[k] = "mobilesync") /\ DirsOf(roots) # <<>>]

\* what a planning call was made on: the chain, which of its sources hold
\* the identifier, the error of the fetch or of the parser if any, whether
\* the fetch failure was logged, whether the roots deny discovery, and
\* whether the called source handed the call to its fallback
PlanFacts(chain, svc, net, roots, data, backup_id, delegated) ==
    LET knows == [k \in 1..Len(chain) |->
                    \E r \in {OwnRecords(chain[k], svc, net, roots, data)} :
                        \E i \in 1..Len(r) : r[i].identifier = backup_id]
    IN  [chain |-> chain,
         knows |-> knows,
         own_err |-> IF chain[1] # "cloud" THEN NoError
                     ELSE IF _fetch_payload(svc, net).err # NoError
                     THEN _fetch_payload(svc, net).err
                     ELSE ParsedPayloads[_fetch_payload(svc, net).payload].err,
         logged |-> chain[1] = "cloud" /\ _fetch_payload(svc, net).logged,
         denied |-> (\E k \in 1..Len(chain) : chain[k] = "mobilesync")
                    /\ _iter_backup_dirs(roots).err.raised # "None",
         delegated |-> delegated]

\* record a source operation's outcome
SourceCall(op, args, r, facts) ==
    /\ last' = [op |-> op, args |-> args, err |-> r.err, result |-> r.result,
                fs |-> r.fs, net |-> r.net, facts |-> facts]
    /\ fsReads' = r.fs
    /\ netRequests' = r.net
    /\ log' = <<>>
    /\ UNCHANGED <<destination, allow_private_endpoints, authVars, guiVars>>

\* the roots under a cloud source: absent, denied, or holding backups
ChainRoots == {roots \in FsStates : Len(roots) = 1}

\* the roots matter to a call only when a MobileSync source is in the chain,
\* the fixture file only when the fixture source is
RootsFor(fallback) ==
    IF \E k \in 1..Len(fallback) : fallback[k] = "mobilesync" THEN ChainRoots
    ELSE {CHOOSE roots \in FsStates : TRUE}

\* a fixture used as a fallback is the full fixture file
DataFor(fallback) ==
    IF \E k \in 1..Len(fallback) : fallback[k] = "mock" THEN {<<FixtureA, FixtureF>>}
    ELSE {CHOOSE data \in MockDataFiles : TRUE}

MockListDeviceBackups ==
    \E data \in MockDataFiles :
        SourceCall("MockICloudAPI.list_device_backups", <<>>,
                   MockICloudAPI_list_device_backups(allow_private_endpoints, data),
                   ListFacts(<<"mock">>, _service, CHOOSE n \in NetStates : TRUE,
                             CHOOSE roots \in FsStates : TRUE, data))

MockPlanDownload ==
    \E data \in MockDataFiles, backup_id \in BackupIds :
        SourceCall("MockICloudAPI.plan_download", <<backup_id>>,
                   MockICloudAPI_plan_download(allow_private_endpoints, data, backup_id),
                   PlanFacts(<<"mock">>, _service,
                             CHOOSE n \in NetStates : TRUE,
                             CHOOSE roots \in FsStates : TRUE, data, backup_id, FALSE))

MobileSyncHasAnyBackups ==
    \E roots \in FsStates :
        SourceCall("MobileSyncICloudAPI.has_any_backups", <<>>,
                   MobileSyncICloudAPI_has_any_backups(allow_private_endpoints, roots),
                   ListFacts(<<"mobilesync">>, _service, CHOOSE n \in NetStates : TRUE,
                             roots, CHOOSE data \in MockDataFiles : TRUE))

\* MobileSyncICloudAPI(policy, root_dirs, fallback).list_device_backups()
MobileSyncListDeviceBackups ==
    \E roots \in FsStates, fallback \in MobileSyncFallbacks :
      \E data \in DataFor(fallback) :
        SourceCall("MobileSyncICloudAPI.list_device_backups", <<>>,
                   MobileSyncICloudAPI_list_device_backups(allow_private_endpoints, roots),
                   ListFacts(<<"mobilesync">> \o fallback, _service,
                             CHOOSE n \in NetStates : TRUE, roots, data))

\* MobileSyncICloudAPI(policy, root_dirs, fallback).plan_download(backup_id, destination)
MobileSyncPlanDownload ==
    \E roots \in FsStates, fallback \in MobileSyncFallbacks, backup_id \in BackupIds :
      \E data \in DataFor(fallback) :
        SourceCall("MobileSyncICloudAPI.plan_download", <<backup_id>>,
                   MobileSyncICloudAPI_plan_download(allow_private_endpoints, roots, backup_id),
                   PlanFacts(<<"mobilesync">> \o fallback, _service,
                             CHOOSE n \in NetStates : TRUE, roots, data, backup_id, FALSE))

\* CloudBackupICloudAPI(auth, policy, fallback).list_device_backups()
CloudListDeviceBackups ==
    \E net \in NetStates, fallback \in Fallbacks :
      \E roots \in RootsFor(fallback), data \in DataFor(fallback) :
        SourceCall("CloudBackupICloudAPI.list_device_backups", <<>>,
                   CloudBackupICloudAPI_list_device_backups(allow_private_endpoints, _service,
                                                            net, fallback, roots, data),
                   ListFacts(<<"cloud">> \o fallback, _service, net, roots, data))

\* CloudBackupICloudAPI(auth, policy, fallback).plan_download(backup_id, destination)
CloudPlanDownload ==
    \E net \in NetStates, fallback \in Fallbacks, backup_id \in BackupIds :
      \E roots \in RootsFor(fallback), data \in DataFor(fallback) :
        LET r == CloudBackupICloudAPI_plan_download(allow_private_endpoints, _service,
                                                    net, fallback, roots, data, backup_id)
        IN  SourceCall("CloudBackupICloudAPI.plan_download", <<backup_id>>, r,
                       PlanFacts(<<"cloud">> \o fallback, _service,
                                 net, roots, data, backup_id, r.delegated))

\* the fallbacks given a PolicyGate of their own
GatedFallbacks == {<<"mock">>, <<"mobilesync">>}

\* what a listing with a separately gated fallback was made on: the
\* fallback's gate, the errors of the fetch and of the parser, and the error
\* the fallback's listing raises
GatedFacts(fallback_gate, svc, net, fallback, roots, data) ==
    [fallback_gate |-> fallback_gate,
     fetch_err |-> _fetch_payload(svc, net).err,
     parse_err |-> ParsedPayloads[_fetch_payload(svc, net).payload].err,
     fallback_err |-> Fallback_list_device_backups(fallback, fallback_gate, roots, data).err]

\* CloudBackupICloudAPI(auth, policy, fallback=Source(PolicyGate(...))).list_device_backups()
CloudListGatedFallback ==
    \E net \in NetStates, fallback \in GatedFallbacks, fallback_gate \in BOOLEAN :
      \E roots \in RootsFor(fallback), data \in DataFor(fallback) :
        SourceCall("CloudBackupICloudAPI.list_device_backups, fallback with its own gate", <<>>,
                   CloudBackupICloudAPI_list_device_backups_with(
                       allow_private_endpoints, fallback_gate, _service, net, fallback,
                       roots, data),
                   GatedFacts(fallback_gate, _service, net, fallback, roots, data))

\* CloudBackupICloudAPI._backup_service_urls(service)
BackupServiceUrls ==
    \E service \in ServiceStubs :
        /\ last' = [op |-> "_backup_service_urls", args |-> <<service>>, err |-> NoError,
                    result |-> _backup_service_urls(service)]
        /\ fsReads' = FALSE
        /\ netRequests' = FALSE
        /\ log' = <<>>
        /\ UNCHANGED <<destination, allow_private_endpoints, authVars, guiVars>>

Init ==
    /\ allow_private_endpoints \in BOOLEAN
    /\ _service = None
    /\ _apple_id = None
    /\ _pending_device = None
    /\ session_file = None
    /\ cookie_directory = FALSE
    /\ flow = "none"
    /\ loginSucceeded = FALSE
    /\ fsReads = FALSE
    /\ netRequests = FALSE
    /\ log = <<>>
    /\ last = [op |-> "init", args |-> <<>>, err |-> NoError]
    /\ GuiIdle
    /\ destination = EmptyDestination

Next ==
    \/ StartLogin
    \/ CompleteTwoFactor
    \/ LoadSession

Spec == Init /\ [][Next]_vars

\* a service whose verification has completed
SignedIn ==
    [hsaVersion |-> 2, hsaTrustedBrowser |-> TRUE, devices |-> [i \in Devices |-> i],
     session_token |-> "tok", session_id |-> "sid"]

\* the same service while its verification is still pending
AwaitingCode == [SignedIn EXCEPT !.hsaTrustedBrowser = FALSE]

\* the service of a login that failed for want of a registered device
NoDevice ==
    [hsaVersion |-> 1, hsaTrustedBrowser |-> FALSE, devices |-> <<>>,
     session_token |-> "", session_id |-> "sid"]

\* the sources are used before any login, after a login that failed, while
\* a verification is pending, or after a completed login
InitSrc ==
    /\ allow_private_endpoints \in BOOLEAN
    /\ \/ /\ _service = None
          /\ _apple_id = None
          /\ session_file = None
          /\ cookie_directory = FALSE
          /\ _pending_device = None
          /\ flow = "none"
          /\ loginSucceeded = FALSE
       \/ /\ _service = Some(NoDevice)
          /\ _apple_id = Some("alice")
          /\ session_file = None
          /\ cookie_directory = TRUE
          /\ _pending_device = None
          /\ flow = "login_failed"
          /\ loginSucceeded = FALSE
       \/ /\ _service = Some(AwaitingCode)
          /\ _apple_id = Some("alice")
          /\ session_file = _write_session_state("alice", "", FALSE)
          /\ cookie_directory = TRUE
          /\ _pending_device = Some(Head(AwaitingCode.devices))
          /\ flow = "login_2fa"
          /\ loginSucceeded = TRUE
       \/ /\ _service = Some(SignedIn)
          /\ _apple_id = Some("alice")
          /\ session_file = _write_session_state("alice", "tok", TRUE)
          /\ cookie_directory = TRUE
          /\ _pending_device = Some(Head(SignedIn.devices))
          /\ flow = "verified"
          /\ loginSucceeded = TRUE
    /\ fsReads = FALSE
    /\ netRequests = FALSE
    /\ log = <<>>
    /\ last = [op |-> "init", args |-> <<>>, err |-> NoError]
    /\ GuiIdle
    /\ destination = EmptyDestination

NextSrc ==
    \/ RequirePrivateAccess
    \/ MockListDeviceBackups
    \/ MockPlanDownload
    \/ MobileSyncHasAnyBackups
    \/ MobileSyncListDeviceBackups
    \/ MobileSyncPlanDownload
    \/ CloudListDeviceBackups
    \/ CloudPlanDownload
    \/ BackupServiceUrls
    \/ CloudListGatedFallback

SpecSrc == InitSrc /\ [][NextSrc]_vars

\* sizes a payload may report: numbers, the non-finite floats, texts
SizeValues ==
    {JNull, JInt(0), JInt(2048), JInt(-5), JFloat("inf"), JFloat("-inf"), JFloat("nan"),
     JStr(" 2048 "), JStr("12.7"), JStr("inf"), JStr("1e400"), JStr("abc"), JStr("   ")}

\* timestamps a payload may report: epoch seconds and milliseconds, instants
\* outside the calendar, the non-finite floats, texts
TimeValues ==
    {JNull, JInt(1700000000), JMillis(1700000000, 123), JInt(-1), JMillis(253402300, 800),
     JFloat("inf"), JFloat("nan"), JStr("2024-01-01T00:00:00Z"), JStr("1700000000"),
     JStr("yesterday"), JStr("   ")}

\* the timestamps every size is combined with
SweepTimes == {JNull, JInt(1700000000), JStr("yesterday")}

\* a snapshot mapping at the top level
FlatPayload(size, timestamp) ==
    JDict(<<<<"snapshotID", JStr("S1")>>, <<"snapshotTimestamp", timestamp>>,
            <<"sizeInBytes", size>>>>)

\* a device mapping whose snapshots inherit its name, date and size
NestedPayload(size, timestamp) ==
    JDict(<<<<"devices",
             JList(<<JDict(<<<<"backupUDID", JStr("U1")>>, <<"deviceName", JStr("iPad")>>,
                             <<"lastBackupDate", timestamp>>, <<"storageUsed", size>>,
                             <<"snapshots",
                               JList(<<JDict(<<<<"snapshotID", JStr("S1")>>>>),
                                       JDict(<<<<"snapshotID", JStr("S2")>>,
                                               <<"size", JInt(7)>>>>)>>)>>>>)>>)>>>>)

\* ISO 8601 texts of UTC instants written with the Z suffix
ZTexts == {"2024-01-01T00:00:00Z", "2024-01-01T00:00Z", "2024-01-01T00:00:00.123Z"}

\* a single snapshot mapping with an identifier, a name, a size and a date
SnapshotPayload(timestamp) ==
    JDict(<<<<"snapshotID", JStr("S1")>>, <<"deviceName", JStr("iPhone")>>,
            <<"snapshotSize", JInt(2048)>>, <<"snapshotDate", timestamp>>>>)

\* a snapshot under a device mapping under an account mapping; the device
\* and the account each carry a name, an identifier, a date and a size
DoublyNestedPayload ==
    JDict(<<<<"deviceName", JStr("Family")>>, <<"backupUDID", JStr("OUT")>>,
            <<"lastBackupDate", JInt(1600000000)>>, <<"storageUsed", JInt(999)>>,
            <<"devices",
              JList(<<JDict(<<<<"deviceName", JStr("iPad")>>, <<"backupUDID", JStr("U1")>>,
                              <<"lastBackupDate", JInt(1700000000)>>,
                              <<"storageUsed", JInt(42)>>,
                              <<"snapshots",
                                JList(<<JDict(<<<<"snapshotID", JStr("S1")>>>>)>>)>>>>)>>)>>>>)

\* mappings that hold no identifier, an empty one, or several
NoIdentifierPayload ==
    JDict(<<<<"deviceName", JStr("stray")>>, <<"sizeInBytes", JInt(1)>>,
            <<"snapshotDate", JInt(1700000000)>>>>)

BothIdentifiersPayload ==
    JDict(<<<<"deviceName", JStr("iPad")>>, <<"backupUDID", JStr("U1")>>,
            <<"snapshotID", JStr("S1")>>>>)

EmptySnapshotIdPayload ==
    JDict(<<<<"deviceName", JStr("iPad")>>, <<"snapshotID", JStr("")>>,
            <<"backupUDID", JStr("U1")>>>>)

InheritedIdentifierPayload ==
    JDict(<<<<"deviceName", JStr("iPad")>>, <<"backupUDID", JStr("U9")>>,
            <<"snapshots", JList(<<JDict(<<<<"snapshotID", JStr("")>>>>)>>)>>>>)

EmptyIdentifiersPayload ==
    JDict(<<<<"deviceName", JStr("iPad")>>, <<"storageUsed", JInt(42)>>,
            <<"snapshots", JList(<<JDict(<<<<"snapshotID", JStr("")>>>>)>>)>>>>)

IdentifierPayloads ==
    {NoIdentifierPayload, BothIdentifiersPayload, EmptySnapshotIdPayload,
     InheritedIdentifierPayload, EmptyIdentifiersPayload}

\* numeric timestamps around the millisecond threshold 10^12
EpochValues == {JMillis(1700000000, 0), JMillis(1000000000, 0), JMillis(1000000000, 1)}

\* payloads handed to the parser: scalars, empty and scalar-only containers,
\* flat and nested mappings over the sizes and the timestamps
ParserInputs ==
    {SnapshotPayload(JStr(text)) : text \in ZTexts} \cup {DoublyNestedPayload} \cup
    IdentifierPayloads \cup {FlatPayload(JInt(2048), timestamp) : timestamp \in EpochValues} \cup
    SizeValues \cup TimeValues
    \cup {JList(<<>>), EmptyMapping, JList(<<JStr("x"), JNull>>)}
    \cup {FlatPayload(size, timestamp) : size \in SizeValues, timestamp \in SweepTimes}
    \cup {FlatPayload(JInt(2048), timestamp) : timestamp \in TimeValues}
    \cup {NestedPayload(size, timestamp) : size \in SizeValues, timestamp \in SweepTimes}
    \cup {NestedPayload(JInt(2048), timestamp) : timestamp \in TimeValues}

\* CloudBackupICloudAPI._parse_backups(payload)
ParseBackups ==
    \E payload \in ParserInputs :
        LET parsed == _parse_backups(payload) IN
        /\ last' = [op |-> "_parse_backups", args |-> <<payload>>, err |-> parsed.err,
                    result |-> parsed.metas]
        /\ UNCHANGED <<destination, allow_private_endpoints, authVars, fsReads, netRequests, log, guiVars>>

InitParse ==
    /\ allow_private_endpoints = TRUE
    /\ _service = None
    /\ _apple_id = None
    /\ session_file = None
    /\ cookie_directory = FALSE
    /\ _pending_device = None
    /\ flow = "none"
    /\ loginSucceeded = FALSE
    /\ fsReads = FALSE
    /\ netRequests = FALSE
    /\ log = <<>>
    /\ last = [op |-> "init", args |-> <<>>, err |-> NoError]
    /\ GuiIdle
    /\ destination = EmptyDestination

NextParse == ParseBackups

SpecParse == InitParse /\ [][NextParse]_vars

\* the accounts the front-end signs in to: a second factor is required
GuiEnvs ==
    {env \in ServiceEnvs :
        env.hsaVersion >= 1 /\ ~env.hsaTrustedBrowser /\ env.session_token = "tok"}

\* the position of a thread that is inside login or submit_2fa
InFlightPcs == {"connect", "adopt", "send", "pend", "write", "check", "validate"}

\* run_async starts a new thread for every request: the next one not yet used
FreeThread(t) ==
    /\ threads[t].pc = "idle"
    /\ \A u \in Threads : u < t => threads[u].pc # "idle"

Raise(t, err) == [threads EXCEPT ![t].pc = "raised", ![t].err = err]

\* BackupGUI.on_request_code: with an Apple ID and a password entered, the
\* worker is handed to run_async; nothing looks at the requests in flight
OnRequestCode(t) ==
    /\ FreeThread(t)
    /\ \E password \in Passwords \ {""} :
           threads' = [threads EXCEPT ![t].pc = "connect", ![t].args = <<"alice", password>>]
    /\ UNCHANGED <<destination, allow_private_endpoints, authVars, srcVars, log, last, _awaiting_2fa, owner>>

\* Orchestrator.start_login and ICloudPyAuthAgent.login up to the sign-in at
\* the provider
LoginConnect(t) ==
    /\ threads[t].pc = "connect"
    /\ \E env \in GuiEnvs, fault \in {"none", "api"} :
        LET apple_id == threads[t].args[1]
            made == NewService(apple_id, threads[t].args[2], env, fault)
            attempt == Entry("auth_login_attempt", <<apple_id>>)
            err == IF made.err.raised = "ICloudPyFailedLoginException"
                   THEN Error("AuthenticationError", "InvalidCredentials")
                   ELSE Error("AuthenticationError", "LoginRejected")
        IN
        /\ cookie_directory' = TRUE
        /\ IF made.err.raised # "None"
           THEN /\ threads' = Raise(t, err)
                /\ log' = <<attempt, Entry("auth_login_failed", <<apple_id, err.msg>>)>>
           ELSE /\ threads' = [threads EXCEPT ![t].pc = "adopt", ![t].service = made.svc]
                /\ log' = <<attempt>>
    /\ UNCHANGED <<destination, allow_private_endpoints, _service, _apple_id, _pending_device, session_file,
                   flow, loginSucceeded, srcVars, last, _awaiting_2fa, owner>>

\* ICloudPyAuthAgent.login, the assignments to the agent and the look at the
\* trusted devices
LoginAdopt(t) ==
    /\ threads[t].pc = "adopt"
    /\ LET s == threads[t].service[1]
           apple_id == threads[t].args[1]
           err == Error("AuthenticationError", "NoTrustedDevice")
       IN
       /\ SetAgent(AdoptService(CurrentAgent, s, apple_id))
       /\ owner' = [svc |-> t, pend |-> t]
       /\ IF requires_2sa(s) /\ s.devices = <<>>
          THEN /\ threads' = Raise(t, err)
               /\ log' = <<Entry("auth_login_failed", <<apple_id, err.msg>>)>>
          ELSE /\ threads' = [threads EXCEPT ![t].pc = IF requires_2sa(s) THEN "send" ELSE "write",
                                             ![t].held = t]
               /\ log' = log
    /\ UNCHANGED <<destination, allow_private_endpoints, flow, loginSucceeded, srcVars, last, _awaiting_2fa>>

\* ICloudPyAuthAgent.login: service.send_verification_code(devices[0])
LoginSend(t) ==
    /\ threads[t].pc = "send"
    /\ \E sendOk \in BOOLEAN :
        LET apple_id == threads[t].args[1]
            err == Error("AuthenticationError", "CodeNotSent")
        IN
        IF sendOk
        THEN /\ threads' = [threads EXCEPT ![t].pc = "pend",
                                           ![t].device = Some(Head(threads[t].service[1].devices))]
             /\ log' = log
        ELSE /\ threads' = Raise(t, err)
             /\ log' = <<Entry("auth_login_failed", <<apple_id, err.msg>>)>>
    /\ UNCHANGED <<destination, allow_private_endpoints, authVars, srcVars, last, _awaiting_2fa, owner>>

\* ICloudPyAuthAgent.login: self._pending_device = device
LoginPend(t) ==
    /\ threads[t].pc = "pend"
    /\ _pending_device' = threads[t].device
    /\ owner' = [owner EXCEPT !.pend = t]
    /\ threads' = [threads EXCEPT ![t].pc = "write"]
    /\ UNCHANGED <<destination, allow_private_endpoints, _service, _apple_id, session_file, cookie_directory,
                   flow, loginSucceeded, srcVars, log, last, _awaiting_2fa>>

\* ICloudPyAuthAgent.login from the session on, and the rest of
\* Orchestrator.start_login
LoginWrite(t) ==
    /\ threads[t].pc = "write"
    /\ LET s == threads[t].service[1]
           apple_id == threads[t].args[1]
           requires_two_factor == requires_2fa(s) \/ requires_2sa(s)
           session == IF ~requires_two_factor THEN Some(_build_session(s, apple_id)) ELSE None
       IN
       /\ session_file' = _write_session_state(
                              apple_id,
                              IF session # None THEN session[1].session_token ELSE "",
                              IF session # None THEN session[1].trusted
                              ELSE is_trusted_session(s))
       /\ log' = <<Entry("auth_login",
                         <<apple_id, requires_two_factor,
                           IF session # None THEN session[1].trusted ELSE FALSE>>)>>
       /\ threads' = [threads EXCEPT ![t].pc = "returned",
                                     ![t].requires2FA = requires_two_factor,
                                     ![t].session = session]
    /\ UNCHANGED <<destination, allow_private_endpoints, _service, _apple_id, _pending_device,
                   cookie_directory, flow, loginSucceeded, srcVars, last, _awaiting_2fa, owner>>

\* the callbacks run_async posts for a login worker: on_request_code's
\* on_success, or handle_error
LoginDone(t) ==
    /\ threads[t].pc \in {"returned", "raised"}
    /\ Len(threads[t].args) = 2
    /\ LET r == threads[t] IN
       /\ _awaiting_2fa' = IF r.pc = "raised" THEN _awaiting_2fa ELSE r.requires2FA
       /\ flow' = FlowAfterLogin(r, flow)
       /\ loginSucceeded' = (loginSucceeded \/ r.pc = "returned")
       /\ last' = AuthOutcome("start_login", r.args, r.err, r.requires2FA, r.session, None,
                              "none")
    /\ threads' = [threads EXCEPT ![t].pc = "finished"]
    /\ UNCHANGED <<destination, allow_private_endpoints, _service, _apple_id, _pending_device, session_file,
                   cookie_directory, srcVars, log, owner>>

\* BackupGUI.on_verify_2fa: while a code is awaited and one is entered, the
\* worker is handed to run_async
OnVerify2fa(t) ==
    /\ FreeThread(t)
    /\ _awaiting_2fa
    /\ \E code \in Codes \ {<<>>} :
           threads' = [threads EXCEPT ![t].pc = "check", ![t].args = <<code>>]
    /\ UNCHANGED <<destination, allow_private_endpoints, authVars, srcVars, log, last, _awaiting_2fa, owner>>

\* Orchestrator.complete_two_factor and ICloudPyAuthAgent.submit_2fa up to
\* the call that validates the code: the service and the device are read
SubmitCheck(t) ==
    /\ threads[t].pc = "check"
    /\ LET attempt == Entry("auth_2fa_attempt", <<>>)
           fail(err) == /\ threads' = Raise(t, err)
                        /\ log' = <<attempt, Entry("auth_2fa_failed", <<err.msg>>)>>
       IN
       IF _service = None \/ _apple_id = None
       THEN fail(Error("AuthenticationError", "NoActiveSession"))
       ELSE
       LET s == _service[1]
           device == IF requires_2fa(s) \/ ~requires_2sa(s) THEN None
                     ELSE IF _pending_device # None THEN _pending_device
                     ELSE IF s.devices # <<>> THEN Some(Head(s.devices))
                     ELSE None
       IN
       IF ~requires_2fa(s) /\ requires_2sa(s) /\ device = None
       THEN fail(Error("AuthenticationError", "NoVerificationDevice"))
       ELSE /\ threads' = [threads EXCEPT ![t].pc = "validate", ![t].service = _service,
                                          ![t].device = device, ![t].held = owner.svc]
            /\ log' = <<attempt>>
    /\ UNCHANGED <<destination, allow_private_endpoints, authVars, srcVars, last, _awaiting_2fa, owner>>

\* ICloudPyAuthAgent.submit_2fa from the validation on, and the rest of
\* Orchestrator.complete_two_factor. The validated service object is the one
\* read before; the agent sees it trusted when it still holds that object.
SubmitValidate(t) ==
    /\ threads[t].pc = "validate"
    /\ \E fault \in {"none", "api"} :
        LET v == CheckCode(threads[t].service[1], threads[t].args[1], fault)
            err == IF v.err.raised # "None"
                   THEN Error("AuthenticationError", "VerificationRejected")
                   ELSE Error("AuthenticationError", "InvalidCode")
            session == _build_session(v.svc, _apple_id[1])
        IN
        IF v.err.raised # "None" \/ ~v.success
        THEN /\ threads' = Raise(t, err)
             /\ log' = <<Entry("auth_2fa_failed", <<err.msg>>)>>
             /\ UNCHANGED <<_service, session_file>>
        ELSE /\ _service' = IF owner.svc = threads[t].held THEN Some(v.svc) ELSE _service
             /\ session_file' = _write_session_state(session.apple_id, session.session_token,
                                                     session.trusted)
             /\ log' = <<Entry("auth", <<IF session.trusted THEN "trusted"
                                                 ELSE "untrusted">>),
                                Entry("policy", describe_capabilities(allow_private_endpoints))>>
             /\ threads' = [threads EXCEPT ![t].pc = "returned", ![t].session = Some(session)]
    /\ UNCHANGED <<destination, allow_private_endpoints, _apple_id, _pending_device, cookie_directory, flow,
                   loginSucceeded, srcVars, last, _awaiting_2fa, owner>>

\* the callbacks run_async posts for a verification worker: on_verify_2fa's
\* on_success, or handle_error
VerifyDone(t) ==
    /\ threads[t].pc \in {"returned", "raised"}
    /\ Len(threads[t].args) = 1
    /\ LET r == threads[t] IN
       /\ _awaiting_2fa' = IF r.pc = "raised" THEN _awaiting_2fa ELSE FALSE
       /\ flow' = FlowAfterSubmit(r, flow)
       /\ last' = AuthOutcome("complete_two_factor", r.args, r.err, FALSE, r.session, r.device,
                              "none")
    /\ threads' = [threads EXCEPT ![t].pc = "finished"]
    /\ UNCHANGED <<destination, allow_private_endpoints, _service, _apple_id, _pending_device, session_file,
                   cookie_directory, loginSucceeded, srcVars, log, owner>>

InitGui == Init

NextGui ==
    \E t \in Threads :
        \/ OnRequestCode(t)
        \/ LoginConnect(t)
        \/ LoginAdopt(t)
        \/ LoginSend(t)
        \/ LoginPend(t)
        \/ LoginWrite(t)
        \/ LoginDone(t)
        \/ OnVerify2fa(t)
        \/ SubmitCheck(t)
        \/ SubmitValidate(t)
        \/ VerifyDone(t)

SpecGui == InitGui /\ [][NextGui]_vars

(***************************************************************************)
(* Actions of the orchestrator's listing, planning and download            *)
(***************************************************************************)
\* the answers of the remote endpoint an orchestrator call may meet: a
\* payload, a stale session, no answer at all
OrchNets == {n \in NetStates : n.post \in {"ok", "401"} \/ n.get = "timeout"}

NetsFor(chain) ==
    IF Head(chain) = "cloud" THEN OrchNets ELSE {CHOOSE n \in NetStates : TRUE}

\* record an orchestrator call: its outcome, the audit entries it appended,
\* the destination it left, and what its source did
OrchestratorCall(op, args, sourced, r, facts) ==
    /\ last' = [op |-> op, args |-> args, err |-> r.err, result |-> r.result,
                stages |-> r.stages, facts |-> facts]
    /\ log' = r.entries
    /\ destination' = r.dest
    /\ fsReads' = sourced.fs
    /\ netRequests' = sourced.net
    /\ UNCHANGED <<allow_private_endpoints, authVars, guiVars>>

\* Orchestrator.list_backups()
OrchestratorListBackups ==
    \E chain \in ApiChains :
      \E net \in NetsFor(chain), roots \in RootsFor(chain), data \in DataFor(chain) :
        LET listed == Api_list_device_backups(chain, allow_private_endpoints, _service,
                                              net, roots, data)
        IN  OrchestratorCall("Orchestrator.list_backups", <<>>, listed,
                             Orchestrator_list_backups(listed, destination),
                             [source_err |-> listed.err])

\* Orchestrator.plan(backup_id, destination)
OrchestratorPlan ==
    \E chain \in ApiChains, backup_id \in BackupIds :
      \E net \in NetsFor(chain), roots \in RootsFor(chain), data \in DataFor(chain) :
        LET planned == Api_plan_download(chain, allow_private_endpoints, _service,
                                         net, roots, data, backup_id)
        IN  OrchestratorCall("Orchestrator.plan", <<backup_id>>, planned,
                             Orchestrator_plan(planned, destination),
                             [source_err |-> planned.err])

\* Orchestrator.download(backup_id, destination)
OrchestratorDownload ==
    \E chain \in ApiChains, backup_id \in BackupIds, usage \in DiskUsages :
      \E net \in NetsFor(chain), roots \in RootsFor(chain), data \in DataFor(chain) :
        LET planned == Api_plan_download(chain, allow_private_endpoints, _service,
                                         net, roots, data, backup_id)
        IN  OrchestratorCall("Orchestrator.download", <<backup_id>>, planned,
                             Orchestrator_download(planned, backup_id, usage, destination,
                                                   roots, data),
                             [source_err |-> planned.err, usage |-> usage])

\* the orchestrator is used with the gate closed or open, before a login or
\* after a completed one, on a fresh destination or on a used one (a directory
\* in the way, or a file an earlier run left)
InitOrch ==
    /\ allow_private_endpoints \in BOOLEAN
    /\ \/ /\ _service = None
          /\ _apple_id = None
          /\ session_file = None
          /\ cookie_directory = FALSE
          /\ _pending_device = None
          /\ flow = "none"
          /\ loginSucceeded = FALSE
       \/ /\ _service = Some(SignedIn)
          /\ _apple_id = Some("alice")
          /\ session_file = _write_session_state("alice", "tok", TRUE)
          /\ cookie_directory = TRUE
          /\ _pending_device = Some(Head(SignedIn.devices))
          /\ flow = "verified"
          /\ loginSucceeded = TRUE
    /\ fsReads = FALSE
    /\ netRequests = FALSE
    /\ log = <<>>
    /\ last = [op |-> "init", args |-> <<>>, err |-> NoError]
    /\ GuiIdle
    /\ destination \in {EmptyDestination, UsedDestination, LeftoverDestination}

NextOrch ==
    \/ OrchestratorListBackups
    \/ OrchestratorPlan
    \/ OrchestratorDownload

SpecOrch == InitOrch /\ [][NextOrch]_vars

(***************************************************************************)
(* Properties                                                              *)
(***************************************************************************)
\* the AuthSession state the agent's fields stand for
AuthState ==
    IF _service = None \/ _apple_id = None THEN "Unauthenticated"
    ELSE IF requires_2fa(_service[1]) \/ requires_2sa(_service[1]) THEN "AwaitingVerification"
    ELSE "Trusted"

IsSixDigits(code) == Len(code) = 6 /\ \A i \in 1..Len(code) : code[i] \in Digits

PrivilegedOps ==
    {"MobileSyncICloudAPI.has_any_backups", "MobileSyncICloudAPI.list_device_backups",
     "MobileSyncICloudAPI.plan_download", "CloudBackupICloudAPI.list_device_backups",
     "CloudBackupICloudAPI.plan_download"}

FixtureOps == {"MockICloudAPI.list_device_backups", "MockICloudAPI.plan_download"}

TrustedFlows == {"login_done", "verified"}

\* C1: require_private_access raises PolicyViolation for every capability
\* exactly when allow_private_endpoints is false, returns normally when it
\* is true, and leaves the gate as it was.
C1_GateDecides ==
    last.op = "require_private_access" =>
        /\ allow_private_endpoints = last.gate_before
        /\ ~last.gate_before => last.err = Error("PolicyViolation", "PrivateEndpointsDisabled")
        /\ last.gate_before => last.err = NoError

C1_Witness ==
    /\ last.op = "require_private_access"
    /\ ~last.gate_before
    /\ last.err.raised = "PolicyViolation"

\* C2: with the gate disabled no operation of a privileged source reads the
\* MobileSync directories or sends a remote request, and each of them fails
\* with PolicyViolation.
C2_GateBeforeAccess ==
    ~allow_private_endpoints =>
        /\ ~fsReads
        /\ ~netRequests
        /\ last.op \in PrivilegedOps => last.err.raised = "PolicyViolation"

\* C3: the fixture source answers from its catalog whatever the gate says:
\* list_device_backups and plan_download never fail with PolicyViolation.
C3_FixtureNeverPrivileged ==
    last.op \in FixtureOps => last.err.raised # "PolicyViolation"

\* C4 as stated: a start_login that goes through without a second factor
\* returns a session with trusted = true and the AuthSession is Trusted; one
\* that needs a second factor returns no session and the AuthSession is
\* AwaitingVerification.
C4_LoginYieldsTrustedSession ==
    (last.op = "start_login" /\ last.err = NoError) =>
        IF ~last.requires2FA
        THEN last.session # None /\ last.session[1].trusted /\ AuthState = "Trusted"
        ELSE last.session = None /\ AuthState = "AwaitingVerification"

\* C4 amended: without a second factor the returned session carries the
\* provider's is_trusted_session value as its trusted flag (false for an
\* account without two-step protection) and nothing is left to verify; with
\* a second factor no session is returned and verification is awaited.
C4_LoginOutcome ==
    (last.op = "start_login" /\ last.err = NoError) =>
        IF ~last.requires2FA
        THEN /\ last.session # None
             /\ last.session[1].trusted = is_trusted_session(_service[1])
             /\ AuthState = "Trusted"
        ELSE last.session = None /\ AuthState = "AwaitingVerification"

C4_Witness ==
    /\ last.op = "start_login"
    /\ last.err = NoError
    /\ ~last.requires2FA
    /\ last.session # None
    /\ ~last.session[1].trusted

\* C5: complete_two_factor called before any start_login has succeeded fails
\* with "no active session" (NotAwaitingVerification) for every code that is
\* submitted (non-empty) and the AuthSession stays Unauthenticated.
C5_VerifyBeforeLogin ==
    (last.op = "complete_two_factor" /\ ~last.pre_ok /\ last.args[1] # <<>>) =>
        /\ last.err = Error("AuthenticationError", "NoActiveSession")
        /\ AuthState = "Unauthenticated"

\* C6 as stated: complete_two_factor called when the AuthSession is already
\* Trusted fails with "no active session" (NotAwaitingVerification).
C6_VerifyWhenTrustedFails ==
    (last.op = "complete_two_factor" /\ last.pre_flow \in TrustedFlows) =>
        last.err = Error("AuthenticationError", "NoActiveSession")

\* C6 amended: complete_two_factor called with a non-empty code when the
\* AuthSession is already Trusted validates nothing and returns the session
\* of the live service again; the AuthSession stays Trusted.
C6_VerifyWhenTrustedReturns ==
    (last.op = "complete_two_factor" /\ last.pre_flow \in TrustedFlows /\ last.args[1] # <<>>) =>
        /\ last.err = NoError
        /\ last.device = None
        /\ last.session = Some(_build_session(_service[1], _apple_id[1]))
        /\ AuthState = "Trusted"

C6_Witness ==
    /\ last.op = "complete_two_factor"
    /\ last.pre_flow = "verified"
    /\ last.args[1] = <<"1", "2", "a", "4", "5", "6">>
    /\ last.err = NoError
    /\ last.session # None

\* C7 as stated: while verification is awaited, a code that is not exactly
\* six digits fails with "invalid code" and discards the pending login: the
\* AuthSession is Unauthenticated afterwards.
C7_BadCodeDiscards ==
    (last.op = "complete_two_factor" /\ last.pre_flow = "login_2fa"
        /\ ~IsSixDigits(last.args[1])) =>
        /\ last.err = Error("AuthenticationError", "InvalidCode")
        /\ AuthState = "Unauthenticated"

\* C7 amended: while verification is awaited, a non-empty code that is not
\* exactly six digits fails (with "invalid code" whenever the provider
\* answers), and the pending login is kept: the AuthSession is still
\* AwaitingVerification with the same pending device.
C7_BadCodeKeepsPending ==
    (last.op = "complete_two_factor" /\ last.pre_flow = "login_2fa"
        /\ last.args[1] # <<>> /\ ~IsSixDigits(last.args[1])) =>
        /\ last.err.raised # "None"
        /\ last.fault = "none" => last.err = Error("AuthenticationError", "InvalidCode")
        /\ last.session = None
        /\ AuthState = "AwaitingVerification"
        /\ flow = "login_2fa"

C7_Witness ==
    /\ last.op = "complete_two_factor"
    /\ last.pre_flow = "login_2fa"
    /\ last.args[1] = <<"1", "2", "3", "4", "5">>
    /\ last.err.msg = "InvalidCode"
    /\ AuthState = "AwaitingVerification"

C9_PendingTargetIsCurrent ==
    /\ Len(_pending_device) <= 1
    /\ _pending_device # None =>
          /\ _service # None
          /\ _service[1].devices # <<>>
          /\ _pending_device[1] = Head(_service[1].devices)
    /\ (last.op = "start_login" /\ last.err = NoError /\ requires_2sa(_service[1])) =>
          _pending_device = Some(Head(_service[1].devices))
    /\ (last.op = "complete_two_factor" /\ last.device # None) =>
          last.device[1] = Head(_service[1].devices)

C9_Witness ==
    /\ last.op = "start_login"
    /\ last.pre_flow = "login_2fa"
    /\ last.err = NoError
    /\ last.requires2FA
    /\ _pending_device = Some(2)

\* C10 as stated: load_session returns the trusted session once the
\* AuthSession has reached Trusted, and a start_login made without
\* credentials then reuses it.
C10_SessionReused ==
    /\ (last.op = "load_session" /\ last.pre_flow \in TrustedFlows) => last.session # None
    /\ (last.op = "start_login" /\ last.pre_flow \in TrustedFlows /\ last.args[1] = "") =>
          last.err = NoError /\ last.session # None

\* C10 amended: load_session returns none in every state, also once the
\* AuthSession is Trusted, and changes nothing; a start_login made without
\* an Apple ID never reuses a session: it fails asking for the Apple ID,
\* logs nothing and leaves the agent as it was.
C10_NoSessionRestored ==
    /\ [](last.op = "load_session" => last.session = None)
    /\ [](last.op = "start_login" /\ last.args[1] = "" =>
            last.err = Error("ValueError", "AppleIdRequired") /\ log = <<>>)
    /\ [][(last'.op = "load_session" \/ (last'.op = "start_login" /\ last'.args[1] = ""))
            => UNCHANGED authVars]_vars

C10_Witness ==
    /\ last.op = "start_login"
    /\ last.pre_flow \in TrustedFlows
    /\ AuthState = "Trusted"
    /\ last.args[1] = ""
    /\ last.err.raised = "ValueError"

CloudOps == {"CloudBackupICloudAPI.list_device_backups", "CloudBackupICloudAPI.plan_download"}

\* C11: with the gate enabled, list_device_backups and plan_download of the
\* cloud source fail with "no session" (NotAuthenticated) and send no remote
\* request unless a session was established: before any login, after a
\* failed login and while a verification is pending.
C11_RemoteNeedsTrustedSession ==
    (last.op \in CloudOps /\ allow_private_endpoints /\ flow \notin TrustedFlows) =>
        /\ last.err = Error("AuthenticationError", "NoSession")
        /\ ~last.net

ListOps ==
    {"MockICloudAPI.list_device_backups", "MobileSyncICloudAPI.list_device_backups",
     "CloudBackupICloudAPI.list_device_backups"}

PlanOps ==
    {"MockICloudAPI.plan_download", "MobileSyncICloudAPI.plan_download",
     "CloudBackupICloudAPI.plan_download"}

LayerIds(layer) == {layer[i].identifier : i \in 1..Len(layer)}

\* one record per identifier: that of the nearest source of the chain holding it
MergedRecords(layers) ==
    UNION {{layers[k][i] :
              i \in {j \in 1..Len(layers[k]) :
                        \A m \in 1..(k - 1) : layers[k][j].identifier \notin LayerIds(layers[m])}} :
           k \in 1..Len(layers)}

\* the sources of the chain after the called one that hold the identifier
Holders(facts) == {k \in 2..Len(facts.chain) : facts.knows[k]}

KnownNowhere(facts) == \A k \in 1..Len(facts.chain) : ~facts.knows[k]

\* BackupMeta.source as each kind of source sets it
SourceTag(kind) == IF kind = "mobilesync" THEN "mobilesync" ELSE "icloud"

\* a call on the cloud source is looked at when made with a trusted session
WithSession == last.op \in CloudOps => flow \in TrustedFlows

\* C13: list_device_backups of a source constructed with a fallback returns
\* exactly one record per identifier held by the source or by its fallback
\* chain: the record of the nearest source that holds the identifier.
C13_ListMergesFallback ==
    (last.op \in ListOps /\ WithSession /\ Len(last.facts.chain) > 1 /\ last.err = NoError) =>
        /\ {last.result[i] : i \in 1..Len(last.result)} = MergedRecords(last.facts.layers)
        /\ Len(last.result) = Cardinality(MergedRecords(last.facts.layers))

\* C14: plan_download of a source constructed with a fallback, for an
\* identifier the source does not hold but a source further down the chain
\* does, returns the plan of the nearest source that holds it (no policy,
\* session or permission failure being in the way).
C14_PlanDelegatesNotFound ==
    (last.op \in PlanOps /\ WithSession /\ allow_private_endpoints /\ ~last.facts.knows[1]
        /\ Holders(last.facts) # {} /\ last.facts.own_err = NoError /\ ~last.facts.denied) =>
        /\ last.err = NoError
        /\ last.result.backup.identifier = last.args[1]
        /\ \E k \in Holders(last.facts) :
              /\ \A m \in Holders(last.facts) : k <= m
              /\ last.result.backup.source = SourceTag(last.facts.chain[k])

C17_UnsupportedIffRemoteOnly ==
    (last.op = "CloudBackupICloudAPI.plan_download" /\ WithSession /\ allow_private_endpoints
        /\ last.facts.own_err = NoError) =>
        (last.err.raised = "NotImplementedError"
            <=> (last.facts.knows[1] /\ Holders(last.facts) = {}))

\* C18: every plan returned by a plan_download has total_bytes equal to the
\* sum of its items' size_bytes and total_files equal to the number of its
\* items, also for items without a declared or readable size.
C18_PlanTotals ==
    (last.op \in PlanOps /\ last.err = NoError) =>
        /\ last.result.total_bytes = SumSizes(last.result.items)
        /\ last.result.total_files = Len(last.result.items)

C18_Witness ==
    /\ last.op = "MockICloudAPI.plan_download"
    /\ last.err = NoError
    /\ last.args[1] = "F"
    /\ Len(last.result.items) = 2
    /\ last.result.total_bytes = 7

DiscoveryOps ==
    {"MobileSyncICloudAPI.has_any_backups", "MobileSyncICloudAPI.list_device_backups"}

\* a discovery that got as far as reading the roots
Discovered ==
    /\ last.op \in DiscoveryOps
    /\ last.op = "MobileSyncICloudAPI.list_device_backups" => allow_private_endpoints

AnyRoot(kind) == \E i \in 1..Len(last.facts.root_kinds) : last.facts.root_kinds[i] = kind

\* C19 as stated: discovery fails with PermissionError only if every root is
\* denied and none yields a backup; with a readable root or a yielded backup
\* it returns without an error.
C19_DeniedOnlyIfAllDenied ==
    Discovered =>
        /\ last.err.raised = "PermissionError" =>
              /\ \A i \in 1..Len(last.facts.root_kinds) : last.facts.root_kinds[i] = "denied"
              /\ ~last.facts.yielded
        /\ (AnyRoot("ok") \/ last.facts.yielded) => last.err = NoError

\* C19 amended: discovery fails with PermissionError exactly when no root
\* yields a backup directory and at least one root is denied, also when
\* another root is readable but empty or missing; in every other case it
\* returns what it found without an error.
C19_DeniedIffNothingYielded ==
    Discovered =>
        IF ~last.facts.yielded /\ AnyRoot("denied")
        THEN last.err = Error("PermissionError", "NoAccessToMobileSync")
        ELSE last.err = NoError

C19_Witness ==
    /\ last.op = "MobileSyncICloudAPI.list_device_backups"
    /\ last.facts.root_kinds = <<"ok", "denied">>
    /\ last.err.raised = "PermissionError"


\* C20: the payload parser never raises: whatever the payload holds, an
\* infinite size or timestamp or a top level that is no container included,
\* it returns a list of records.
C20_ParserNeverRaises == last.op = "_parse_backups" => last.err = NoError

\* C12: start_login and complete_two_factor on one agent are serialized: no
\* two of them are in flight at the same time, also when every request runs
\* on its own thread, so that _service and _pending_device always come from
\* the same login attempt.
C12_AuthCallsSerialized ==
    /\ Cardinality({t \in Threads : threads[t].pc \in InFlightPcs}) <= 1
    /\ owner.svc = owner.pend

\* the text with its trailing Z replaced by +00:00
ZReplaced(text) ==
    CASE text = "2024-01-01T00:00:00Z" -> "2024-01-01T00:00:00+00:00"
      [] text = "2024-01-01T00:00Z" -> "2024-01-01T00:00+00:00"
      [] text = "2024-01-01T00:00:00.123Z" -> "2024-01-01T00:00:00.123+00:00"

\* the texts of the form YYYY-MM-DDTHH:MM:SSZ
WholeSecondTexts == {"2024-01-01T00:00:00Z"}

\* the parser was given the single snapshot mapping dated text
ParsedSnapshot(text) ==
    last.op = "_parse_backups" /\ last.args = <<SnapshotPayload(JStr(text))>>

\* one record S1 / iPhone / 2048 from the remote source
OneRecord ==
    /\ last.err = NoError
    /\ Len(last.result) = 1
    /\ last.result[1].identifier = "S1"
    /\ last.result[1].device_name = "iPhone"
    /\ last.result[1].approx_size_bytes = 2048

\* C21: a single mapping with a snapshot id, a device name, a size and a
\* Z-suffixed ISO timestamp yields exactly one record with that identifier,
\* name and size whose created_at is the timestamp with the trailing Z
\* replaced by +00:00.
C21_ZReplacedVerbatim ==
    \A text \in ZTexts :
        ParsedSnapshot(text) => OneRecord /\ last.result[1].created_at = ZReplaced(text)

\* C21 amended: the record carries the identifier, name and size; for a
\* timestamp written YYYY-MM-DDTHH:MM:SSZ created_at is the text with the Z
\* replaced by +00:00, and every Z-suffixed timestamp ends in +00:00 with
\* the Z gone.
C21_ZTimestampCanonical ==
    \A text \in ZTexts :
        ParsedSnapshot(text) =>
            /\ OneRecord
            /\ last.result[1].created_at # text
            /\ text \in WholeSecondTexts => last.result[1].created_at = ZReplaced(text)
            /\ text = "2024-01-01T00:00Z" =>
                   last.result[1].created_at = "2024-01-01T00:00:00+00:00"
            /\ text = "2024-01-01T00:00:00.123Z" =>
                   last.result[1].created_at = "2024-01-01T00:00:00.123000+00:00"

C21_Witness ==
    /\ ParsedSnapshot("2024-01-01T00:00:00Z")
    /\ Len(last.result) = 1
    /\ last.result[1].created_at = "2024-01-01T00:00:00+00:00"

\* the orchestrator's download was called
Downloading == last.op = "Orchestrator.download"

\* the source chain answered the download with a plan
HasPlan == Downloading /\ last.facts.source_err = NoError

\* the collaborator call of the given name was made
StageRan(stage) == \E i \in 1..Len(last.stages) : last.stages[i] = stage

\* the bytes free once the plan's total_bytes are written
SpaceLeft == last.facts.usage.free - last.result.plan.total_bytes

\* the space left is not negative and at least 15% of the disk
PreflightPasses == SpaceLeft >= 0 /\ SpaceLeft * 100 >= last.facts.usage.total * 15

\* the events of the audit entries the latest call appended
Events == [i \in 1..Len(log) |-> log[i][1]]

\* the transfer ran and listed at least one failed item
SomeCopyFailed == HasPlan /\ StageRan("run") /\ last.result.result.failed_items # <<>>

\* C22: in download the transfer runs only after the capacity preflight for
\* the plan's total_bytes has succeeded; when the preflight fails the call
\* raises OSError (insufficient space) and makes no transfer, verification
\* or report export, and the destination holds what it held.
C22_CapacityBeforeTransfer ==
    [][Downloading' =>
        /\ StageRan("run")' =>
              /\ (HasPlan /\ PreflightPasses)'
              /\ \E i, j \in 1..Len(last'.stages) :
                    i < j /\ last'.stages[i] = "ensure_capacity" /\ last'.stages[j] = "run"
        /\ (HasPlan /\ ~PreflightPasses)' =>
              /\ last'.err = Error("OSError", "InsufficientDiskSpace")
              /\ ~StageRan("run")' /\ ~StageRan("verify")' /\ ~StageRan("export")'
              /\ last'.result.report = <<>>
              /\ log' = <<>>
              /\ destination' = destination]_vars

C22_Witness ==
    /\ HasPlan
    /\ ~PreflightPasses
    /\ last.err.raised = "OSError"
    /\ last.result.plan.total_bytes = 50

\* C23: a transfer in which some items fail to copy does not make download
\* fail: every item of the plan is attempted, and verification, the
\* download_complete entry and the report export still happen.
C23_PartialFailureNotEscalated ==
    SomeCopyFailed =>
        /\ last.err = NoError
        /\ last.result.attempted =
              [i \in 1..Len(last.result.plan.items) |-> last.result.plan.items[i].logical_path]
        /\ StageRan("verify")
        /\ StageRan("export")
        /\ Events = <<"download_start", "download_complete">>

\* C24: a verification that reports ok = false because a planned file is
\* missing at the destination is fatal: download raises and exports no
\* report.
C24_VerificationFailureFatal ==
    (HasPlan /\ StageRan("verify") /\ last.result.verification.failed_files # <<>>) =>
        /\ last.err # NoError
        /\ ~StageRan("export")

\* C25: every download that fails records a failure entry before the error
\* reaches the caller, and a download_start entry is always followed by a
\* success or failure entry.
C25_EveryFailureAudited ==
    Downloading =>
        /\ last.err # NoError =>
              /\ log # <<>>
              /\ log[Len(log)][1] \notin {"download_start", "download_complete"}
        /\ (\E i \in 1..Len(log) : log[i][1] = "download_start") =>
              log[Len(log)][1] # "download_start"

\* C26: when planning, preflight, transfer and verification all succeed,
\* the audit log receives download_start and then download_complete for the
\* requested backup id with nothing between them, and the call returns a
\* report reference.
C26_StartThenComplete ==
    (HasPlan /\ PreflightPasses /\ StageRan("verify")
        /\ last.result.result.failed_items = <<>> /\ last.result.verification.ok) =>
        /\ last.err = NoError
        /\ Events = <<"download_start", "download_complete">>
        /\ \A i \in 1..Len(log) : log[i][2].backup_id = last.args[1]
        /\ last.result.report # <<>>
        /\ last.result.report.path = "reports/session.json"

C26_Witness ==
    /\ Downloading
    /\ last.args = <<"A">>
    /\ last.err = NoError
    /\ last.result.result.downloaded_files = 2
    /\ last.result.verification.ok
    /\ Len(log) = 2

OrchestratorOps == {"Orchestrator.list_backups", "Orchestrator.plan", "Orchestrator.download"}

\* C27: when the source raises PolicyViolation, list_backups, plan and
\* download raise the PermissionError that tells the caller to enable
\* private access; an unknown backup identifier reaches the caller as
\* FileNotFoundError, a different kind.
C27_PolicyGuidanceDistinct ==
    last.op \in OrchestratorOps =>
        /\ last.facts.source_err.raised = "PolicyViolation" =>
              /\ last.err = Error("PermissionError", "EnablePrivateAccess")
              /\ Events = <<"policy_denied">>
        /\ last.facts.source_err.raised = "FileNotFoundError" =>
              last.err.raised = "FileNotFoundError"

C27_Witness ==
    /\ last.op = "Orchestrator.plan"
    /\ last.facts.source_err.raised = "PolicyViolation"
    /\ last.err.raised = "PermissionError"
    /\ ~allow_private_endpoints

\* the taxonomy kind an authentication failure stands for, by its message
TaxonomyKind(err) ==
    CASE err.msg = "InvalidCredentials" -> "InvalidCredentials"
      [] err.msg \in {"NoTrustedDevice", "NoVerificationDevice"} -> "NoVerificationTarget"
      [] err.msg = "NoActiveSession" -> "NotAwaitingVerification"
      [] err.msg = "InvalidCode" -> "InvalidVerificationCode"
      [] OTHER -> "none"

\* C28: each error kind of the taxonomy reaches the caller as its own error
\* type: two failures of different kinds never carry the same type.
C28_KindsHaveOwnType ==
    [][(/\ TaxonomyKind(last.err) # "none"
        /\ TaxonomyKind(last'.err) # "none"
        /\ TaxonomyKind(last.err) # TaxonomyKind(last'.err))
       => last.err.raised # last'.err.raised]_vars

\* the remote source's listing was called with the gate open
CloudListed ==
    last.op = "CloudBackupICloudAPI.list_device_backups" /\ allow_private_endpoints

\* the listing of the fallback fails: it is a MobileSync source whose roots
\* yield nothing and deny access
FallbackDenied ==
    /\ last.facts.chain[2] = "mobilesync"
    /\ ~last.facts.yielded
    /\ \E i \in 1..Len(last.facts.root_kinds) : last.facts.root_kinds[i] = "denied"

\* C29: a remote fetch that fails for a reason other than authentication is
\* a transport failure: with no fallback source to answer,
\* list_device_backups raises instead of returning an empty catalog.
C29_TransportFailureRaised ==
    (CloudListed /\ WithSession /\ last.facts.logged /\ Len(last.facts.chain) = 1) =>
        last.err.raised # "None"

\* C30: when both requests of the remote fetch fail with a transport error
\* and the fallback's listing succeeds, list_device_backups returns the
\* fallback's records without an error; an HTTP 401/403 is raised as the
\* stale-session AuthenticationError whatever the fallback holds.
C30_FallbackAnswersTransportFailure ==
    CloudListed =>
        /\ (last.facts.logged /\ Len(last.facts.chain) > 1 /\ ~FallbackDenied) =>
              /\ last.err = NoError
              /\ last.result = last.facts.layers[2]
        /\ last.facts.fetch_err = Error("AuthenticationError", "SessionExpired") =>
              last.err = Error("AuthenticationError", "SessionExpired")

C30_Witness ==
    /\ CloudListed
    /\ last.facts.logged
    /\ last.facts.chain = <<"cloud", "mobilesync", "mock">>
    /\ last.err = NoError
    /\ Len(last.result) = 2

\* the candidate urls were asked for
UrlsListed == last.op = "_backup_service_urls"

RecordsOf(identifier) ==
    {last.result[i] : i \in {i \in 1..Len(last.result) : last.result[i].identifier = identifier}}

\* C32: a context field set by a node closer to the candidate overrides the
\* value inherited from a more distant ancestor: the snapshot under a
\* device under an account gets the device's name, date and size.
C32_NearestAncestorWins ==
    (last.op = "_parse_backups" /\ last.args = <<DoublyNestedPayload>>) =>
        /\ last.err = NoError
        /\ \E r \in RecordsOf("S1") :
              /\ r.device_name = "iPad"
              /\ r.created_at = "2023-11-14T22:13:20+00:00"
              /\ r.approx_size_bytes = 42

\* the parser was called
Parsed == last.op = "_parse_backups"

ParsedPayload(payload) == Parsed /\ last.args = <<payload>>

\* the keys an identifier is read from, and their spellings
IdentifierBearingKeys ==
    KeysOf(IdentifierKeys) \cup KeysOf(DeviceIdKeys) \cup SnapshotIdSpellings
        \cup {lower(DeviceIdKeys[i]) : i \in 1..Len(DeviceIdKeys)}

\* some mapping of the payload holds a key an identifier is read from
RECURSIVE BearsIdentifier(_)
BearsIdentifier(value) ==
    IF value.t = "dict"
    THEN \E i \in 1..Len(value.items) :
            value.items[i][1] \in IdentifierBearingKeys \/ BearsIdentifier(value.items[i][2])
    ELSE IF value.t = "list"
    THEN \E i \in 1..Len(value.items) : BearsIdentifier(value.items[i])
    ELSE FALSE

\* the identifiers of the records returned, in order
Identifiers == [i \in 1..Len(last.result) |-> last.result[i].identifier]

\* C33: a candidate's identifier is the first non-empty value among the
\* snapshot-id keys, then the backup UDID/UUID keys, then the inherited
\* device identifier; a candidate with none is dropped without an error, a
\* payload with no identifier-bearing key yields no record, and every
\* record has a non-empty identifier.
C33_IdentifierPrecedence ==
    Parsed =>
        /\ \A i \in 1..Len(last.result) : last.result[i].identifier # ""
        /\ ~BearsIdentifier(last.args[1]) => last.err = NoError /\ last.result = <<>>
        /\ last.args = <<BothIdentifiersPayload>> => Identifiers = <<"S1">>
        /\ last.args = <<EmptySnapshotIdPayload>> => Identifiers = <<"U1">>
        /\ last.args = <<InheritedIdentifierPayload>> => Identifiers = <<"U9">>
        /\ last.args = <<EmptyIdentifiersPayload>> => last.err = NoError /\ last.result = <<>>

C33_Witness ==
    /\ ParsedPayload(InheritedIdentifierPayload)
    /\ Len(last.result) = 1
    /\ last.result[1].identifier = "U9"

\* the created_at of the one record parsed from a flat snapshot mapping
CreatedAt == last.result[1].created_at

\* C34: a numeric timestamp above 10^12 is taken as epoch milliseconds and
\* divided by 1000, one up to 10^12 as epoch seconds: 1700000000000 and
\* 1700000000 give the same UTC instant, 10^12 + 1 is the instant one
\* millisecond after 10^9 seconds, and 10^12 itself is not read as
\* milliseconds.
C34_MillisecondThreshold ==
    /\ ParsedPayload(FlatPayload(JInt(2048), JInt(1700000000))) =>
          CreatedAt = "2023-11-14T22:13:20+00:00"
    /\ ParsedPayload(FlatPayload(JInt(2048), JMillis(1700000000, 0))) =>
          CreatedAt = "2023-11-14T22:13:20+00:00"
    /\ ParsedPayload(FlatPayload(JInt(2048), JMillis(1700000000, 123))) =>
          CreatedAt = "2023-11-14T22:13:20.123000+00:00"
    /\ ParsedPayload(FlatPayload(JInt(2048), JMillis(1000000000, 1))) =>
          CreatedAt = "2001-09-09T01:46:40.001000+00:00"
    /\ ParsedPayload(FlatPayload(JInt(2048), JMillis(1000000000, 0))) =>
          CreatedAt = "1000000000000"

C34_Witness ==
    /\ ParsedPayload(FlatPayload(JInt(2048), JMillis(1700000000, 0)))
    /\ last.result[1].created_at = "2023-11-14T22:13:20+00:00"

\* C35: every record the parser returns has approx_size_bytes >= 0, also
\* when the payload carries a negative or non-numeric size.
C35_SizeNeverNegative ==
    Parsed => \A i \in 1..Len(last.result) : last.result[i].approx_size_bytes >= 0

\* the fields of the agent that hold the sign-in in progress
agentFields == <<_service, _apple_id, _pending_device, session_file>>

\* C36: a start_login that fails leaves the agent as it was before the call:
\* no service handle, pending target or session of the failed attempt is
\* retained.
C36_FailedLoginLeavesNoTrace ==
    [][(last'.op = "start_login" /\ last'.err # NoError) => agentFields' = agentFields]_vars

LoginOutcomeEvents == {"auth_login", "auth_login_failed", "auth_login_error"}

TwoFactorOutcomeEvents == {"auth", "auth_2fa_failed", "auth_2fa_error"}

\* the positions of the call's entries whose event is one of the given ones
EntriesOf(events) == {i \in 1..Len(log) : log[i][1] \in events}

\* every attempt entry of the call is followed by exactly one outcome entry,
\* and every outcome entry of the call follows an attempt entry
AttemptsPaired(attempt, outcomes) ==
    /\ \A i \in EntriesOf({attempt}) :
          Cardinality({j \in EntriesOf(outcomes) : j > i}) = 1
    /\ \A j \in EntriesOf(outcomes) : \E i \in EntriesOf({attempt}) : i < j

\* C40: when start_login returns or raises, every auth_login_attempt entry
\* it recorded is followed by exactly one of auth_login, auth_login_failed
\* or auth_login_error; likewise every auth_2fa_attempt of
\* complete_two_factor by exactly one of auth, auth_2fa_failed or
\* auth_2fa_error; no outcome entry is recorded without its attempt entry.
C40_AttemptThenOneOutcome ==
    /\ last.op = "start_login" =>
          /\ AttemptsPaired("auth_login_attempt", LoginOutcomeEvents)
          /\ EntriesOf(TwoFactorOutcomeEvents \cup {"auth_2fa_attempt"}) = {}
    /\ last.op = "complete_two_factor" =>
          /\ AttemptsPaired("auth_2fa_attempt", TwoFactorOutcomeEvents)
          /\ EntriesOf(LoginOutcomeEvents \cup {"auth_login_attempt"}) = {}

C40_Witness ==
    /\ last.op = "complete_two_factor"
    /\ last.err.raised \notin {"None", "AuthenticationError"}
    /\ Len(log) = 2
    /\ log[1][1] = "auth_2fa_attempt"
    /\ log[2][1] = "auth_2fa_error"

\* the remote source's listing got as far as asking its fallback, which has
\* a gate of its own
GatedFallbackAsked ==
    /\ last.op = "CloudBackupICloudAPI.list_device_backups, fallback with its own gate"
    /\ allow_private_endpoints
    /\ last.facts.fetch_err = NoError
    /\ last.facts.parse_err = NoError

\* C39: a PolicyViolation raised by the fallback's listing during the remote
\* source's list_device_backups reaches the caller; a fallback failure that
\* is swallowed is never a policy failure.
C39_FallbackPolicyDeniedPropagates ==
    GatedFallbackAsked =>
        /\ last.facts.fallback_err.raised = "PolicyViolation" =>
              last.err = last.facts.fallback_err
        /\ (last.err = NoError /\ last.facts.fallback_err # NoError) =>
              last.facts.fallback_err.raised # "PolicyViolation"

\* a download request ran its verification, which returned a report
Verified == Downloading /\ last.err = NoError /\ StageRan("verify")

\* C37: if the verification of a download request reports ok = true, every
\* item of the plan was copied in that same request: the transfer result of
\* the request has no failed items.
C37_VerifiedMeansCopied ==
    (Verified /\ last.result.verification.ok) => last.result.result.failed_items = <<>>

\* C38: when LocalDownloadManager.run returns, each plan item is counted
\* once: downloaded_files + len(failed_items) = plan.total_files; when
\* HashVerifier.verify returns, hashed_files + len(failed_files) =
\* plan.total_files, and ok is true exactly when failed_files is empty.
C38_EveryItemAccounted ==
    /\ (Downloading /\ StageRan("verify")) =>
          last.result.result.downloaded_files + Len(last.result.result.failed_items)
              = last.result.plan.total_files
    /\ Verified =>
          /\ last.result.verification.hashed_files + Len(last.result.verification.failed_files)
                = last.result.plan.total_files
          /\ last.result.verification.ok <=> (last.result.verification.failed_files = <<>>)

C38_Witness ==
    /\ Verified
    /\ last.result.plan.total_files = 2
    /\ last.result.result.downloaded_files = 1
    /\ Len(last.result.result.failed_items) = 1
    /\ last.result.verification.hashed_files = 1
    /\ last.result.verification.failed_files = <<"g2">>
    /\ ~last.result.verification.ok

====
